---- MODULE Spec2Model ----
(***************************************************************************)
(* Model of the AWSBuild controller of forge-provider-aws: the             *)
(* orchestrator (Reconcile / reconcileNormal / reconcileDelete), the five  *)
(* stage services (networks, subnet, securitygroup, instances, images) in  *)
(* their client-indirection variant, and the AWSClient methods they call.  *)
(* The EC2 provider is part of the state: its resources, their tags and    *)
(* the answers it gives to each call.                                      *)
(***************************************************************************)
EXTENDS Integers, Sequences, FiniteSets, TLC

\* ------------------------------------------------------------------ bounds
\* Resources of one kind the provider lets the controller create (quota).
MaxNew == 2
\* Ways in which the request and the provider's prior state may depart from
\* the plain case (no user-supplied id, nothing there before the build).
MaxDeviations == 2
\* Invocations, over a whole behaviour, that meet an answer other than the
\* normal ones (a failing call, a duplicate route, ...).
MaxAnomalies == 1

\* --------------------------------------------------------- program constants
SubnetMask == 24
VpcPrefix == 16
RequeueSeconds == 5
SshPort == 22

NIL == -1
\* Id 0 of every kind is the resource that exists before the build does
\* (user-supplied or found by name); ids 1..MaxNew are handed out by the
\* provider to the calls that create a resource.
ForeignId == 0
Ids == 0 .. MaxNew
NewIds == 1 .. MaxNew

BuildName == "a"
\* The build's creation timestamp, in seconds (RFC3339 has second precision).
BuildCreated == 1

\* ------------------------------------------------------------------- errors
\* An error value: its identity (which errors.Is compares, through any
\* wrapping), the AWS error code (which awserr.Error carries), whether
\* errors.Wrap was applied (a wrapped error no longer type-asserts to
\* awserr.Error) and its text, outermost part first.
NoErr == [id |-> "nil", code |-> "", wrapped |-> FALSE, msg |-> <<>>]

NotTerminatedText == "the Instance is not terminated yet, Waiting"

ErrInstanceNotTerminated ==
    [id |-> "ErrInstanceNotTerminated", code |-> "", wrapped |-> FALSE,
     msg |-> <<NotTerminatedText>>]

AwsErr(code, msg) == [id |-> "awserr", code |-> code, wrapped |-> FALSE, msg |-> <<msg>>]

PanicErr ==
    [id |-> "panic", code |-> "", wrapped |-> FALSE, msg |-> <<"nil pointer dereference">>]

ErrorsNew(msg) == [id |-> "plain", code |-> "", wrapped |-> FALSE, msg |-> <<msg>>]

\* errors.Wrap: the text becomes "text: <text of e>".
Wrap(e, text) == [e EXCEPT !.wrapped = TRUE, !.msg = <<text>> \o @]

NotFoundCodes ==
    {"InvalidVpcID.NotFound", "InvalidSubnetID.NotFound", "InvalidGroup.NotFound",
     "InvalidInstanceID.NotFound"}

IsNotFound(e) == e.id = "awserr" /\ ~e.wrapped /\ e.code \in NotFoundCodes

\* A faulty variant of IsInstanceNotTerminated, which C7 excludes: it compares
\* the text of the error.
IsInstanceNotTerminatedByText(e) == \E i \in DOMAIN e.msg : e.msg[i] = NotTerminatedText

IsInstanceNotTerminated(e) == e.id = ErrInstanceNotTerminated.id

\* ------------------------------------------------------- provider answers
\* The EC2 operations (and the two collaborators' calls) that can fail.
Ops ==
    {"DescribeVpcs", "CreateVpc", "DeleteVpc",
     "DescribeInternetGateways", "CreateInternetGateway", "AttachInternetGateway",
     "DetachInternetGateway", "DeleteInternetGateway",
     "DescribeRouteTables", "CreateRoute",
     "DescribeSubnets", "CreateSubnet", "DeleteSubnet",
     "CreateSecurityGroup", "AuthorizeSecurityGroupIngress",
     "DescribeSecurityGroups", "DeleteSecurityGroup",
     "DescribeInstances", "RunInstances", "TerminateInstances",
     "DescribeImages", "CreateImage", "DeregisterImage",
     "EnsureCredentialsSecret", "GetSSHKey", "PatchObject"}

\* What the collaborators answer during one orchestrator invocation:
\*   fail      the operation that answers with an internal error ("none": no one)
\*   failMsg   the text of that error
\*   dupRoute  TRUE: CreateRoute for a destination already in the table answers
\*             RouteAlreadyExists (the EC2 API); FALSE: it replaces the route
\*   nilAssoc  TRUE: the instance's first network interface has no Association
\*   rev       TRUE: DescribeImages lists the images in descending id order
\* and, with them, which of the two texts of instances.Service.Delete that
\* instances/reconcile.go holds is the one built:
\*   second    FALSE: the first text; TRUE: the second
NoAnomaly ==
    [fail |-> "none", failMsg |-> "internal error", dupRoute |-> FALSE,
     nilAssoc |-> FALSE, rev |-> FALSE, second |-> FALSE]

Answers ==
    {NoAnomaly}
    \cup {[NoAnomaly EXCEPT !.fail = op] : op \in Ops}
    \cup {[NoAnomaly EXCEPT !.fail = "DeleteSubnet", !.failMsg = NotTerminatedText]}
    \cup {[NoAnomaly EXCEPT !.dupRoute = TRUE]}
    \cup {[NoAnomaly EXCEPT !.nilAssoc = TRUE]}
    \cup {[NoAnomaly EXCEPT !.rev = TRUE]}

Internal(a) == AwsErr("InternalError", a.failMsg)

\* ---------------------------------------------------------- provider state
VpcCidrBase == <<10, 0, 0, 0>>
DefaultCIDR == [base |-> VpcCidrBase, bits |-> VpcPrefix]

NoVpc == [st |-> "free", managed |-> FALSE, name |-> "", cidr |-> DefaultCIDR]
NoIgw == [st |-> "free", managed |-> FALSE, vpc |-> NIL]
NoSubnet == [st |-> "free", managed |-> FALSE, vpc |-> NIL, cidr |-> DefaultCIDR, name |-> ""]
NoSg == [st |-> "free", managed |-> FALSE, vpc |-> NIL, name |-> "", ssh |-> FALSE]
NoInst == [st |-> "free", managed |-> FALSE, subnet |-> NIL, sg |-> NIL]
NoImage == [st |-> "free", managed |-> FALSE, name |-> "", created |-> 0]

Live(r) == r.st \notin {"free", "gone"}

\* The smallest id the provider has not handed out yet, NIL when the quota
\* is used up.
FreshId(table) ==
    LET free == {i \in NewIds : table[i].st = "free"}
    IN  IF free = {} THEN NIL ELSE CHOOSE i \in free : \A j \in free : i <= j

\* m is the machine state one invocation works on: s the AWSBuild object in
\* memory, c the provider, calls the provider calls issued so far, events the
\* events recorded so far.
Call(m, op, id) == [m EXCEPT !.calls = Append(@, <<op, id>>)]


SetMin(S) == CHOOSE i \in S : \A j \in S : i <= j

\* The element of a one-element set: Only({e(x) : x \in {v}}) is e at x = v.
Only(S) == CHOOSE v \in S : TRUE

\* ------------------------------------------------------------------- scope
VPCName(s) == IF s.netName # "" THEN s.netName ELSE s.name \o "-forge-vpc"

SecurityGroupName(s) == IF s.netName # "" THEN s.netName ELSE s.name \o "-forge"

VPCSpec(s) == [cidr |-> DefaultCIDR, name |-> VPCName(s), managed |-> TRUE]

SetVPCID(m, id) == [m EXCEPT !.s.vpcID = id]
SetVPCName(m, name) == [m EXCEPT !.s.netName = name]
\* A faulty variant of SetSubnet, which C28 excludes: it clears the instance
\* status as well.
SetSubnetWide(m, id) == [m EXCEPT !.s.subnetID = id, !.s.instanceStatus = ""]
SetSubnet(m, id) == [m EXCEPT !.s.subnetID = id]
SetSecurityGroupID(m, id) == [m EXCEPT !.s.sgID = id]
SetInstanceID(m, id) == [m EXCEPT !.s.instanceID = id]
\* A faulty variant of SetInstanceStatus, which C39 excludes: the status is
\* not kept.
SetInstanceStatusLost(m, v) == m
SetInstanceStatus(m, v) == [m EXCEPT !.s.instanceStatus = v]
SetArtifactRef(m, ref) == [m EXCEPT !.s.artifactRef = ref]

\* ------------------------------------------------------- AWSClient: network
\* EC2 DescribeVpcs with VpcIds: an id the provider does not know is an error.
DescribeVpcsByID(m, a, id) ==
    IF a.fail = "DescribeVpcs"
    THEN [m |-> Call(m, "DescribeVpcs", id), err |-> Internal(a), out |-> {}]
    ELSE IF ~Live(m.c.vpc[id])
    THEN [m |-> Call(m, "DescribeVpcs", id),
          err |-> AwsErr("InvalidVpcID.NotFound", "vpc does not exist"), out |-> {}]
    ELSE [m |-> Call(m, "DescribeVpcs", id), err |-> NoErr, out |-> {id}]

\* EC2 DescribeVpcs with a tag:Name filter: no match is an empty answer.
DescribeVpcsByName(m, a, name) ==
    IF a.fail = "DescribeVpcs"
    THEN [m |-> Call(m, "DescribeVpcs", NIL), err |-> Internal(a), out |-> {}]
    ELSE [m |-> Call(m, "DescribeVpcs", NIL), err |-> NoErr,
          out |-> {i \in Ids : Live(m.c.vpc[i]) /\ m.c.vpc[i].name = name}]

\* The lookup by name that FindVPCByIDOrName falls back to.
FindVPCByName(byName) ==
    IF byName.err = NoErr /\ byName.out # {}
    THEN [m |-> byName.m, err |-> NoErr, vpc |-> SetMin(byName.out)]
    ELSE IF byName.err # NoErr
    THEN [m |-> byName.m, err |-> Wrap(byName.err, "Failed to find VPC by Name"), vpc |-> NIL]
    ELSE [m |-> byName.m, err |-> NoErr, vpc |-> NIL]

\* A faulty variant of FindVPCByIDOrName, which C17 excludes: it leaves out
\* the lookup by name.
FindVPCByIDOnly(m, a, vpcID, vpcName) ==
    IF vpcID = NIL THEN [m |-> m, err |-> NoErr, vpc |-> NIL]
    ELSE Only({ IF byID.err = NoErr /\ byID.out # {}
                THEN [m |-> byID.m, err |-> NoErr, vpc |-> SetMin(byID.out)]
                ELSE [m |-> byID.m, err |-> NoErr, vpc |-> NIL]
              : byID \in {DescribeVpcsByID(m, a, vpcID)} })

\* An error of the lookup by id is dropped: the lookup by name follows.
FindVPCByIDOrName(m, a, vpcID, vpcName) ==
    IF vpcID = NIL THEN FindVPCByName(DescribeVpcsByName(m, a, vpcName))
    ELSE Only({ IF byID.err = NoErr /\ byID.out # {}
                THEN [m |-> byID.m, err |-> NoErr, vpc |-> SetMin(byID.out)]
                ELSE FindVPCByName(DescribeVpcsByName(byID.m, a, vpcName))
              : byID \in {DescribeVpcsByID(m, a, vpcID)} })

IsManagedVPC(m, a, vpcID) ==
    Only({ IF d.err # NoErr
           THEN [m |-> d.m, err |-> Wrap(d.err, "failed to describe VPC"), val |-> FALSE]
           ELSE [m |-> d.m, err |-> NoErr, val |-> \E v \in d.out : m.c.vpc[v].managed]
         : d \in {DescribeVpcsByID(m, a, vpcID)} })

\* EC2 DeleteVpc answers DependencyViolation while anything is left in the VPC.
VpcInUse(c, v) ==
    \/ \E i \in Ids : Live(c.subnet[i]) /\ c.subnet[i].vpc = v
    \/ \E i \in Ids : Live(c.sg[i]) /\ c.sg[i].vpc = v
    \/ \E i \in Ids : Live(c.igw[i]) /\ c.igw[i].vpc = v

DeleteVPC(m, a, vpcID) ==
    Only({ IF a.fail = "DeleteVpc"
           THEN [m |-> m1, err |-> Wrap(Internal(a), "failed to delete VPC")]
           ELSE IF ~Live(m.c.vpc[vpcID])
           THEN [m |-> m1, err |-> Wrap(AwsErr("InvalidVpcID.NotFound", ""), "failed to delete VPC")]
           ELSE IF VpcInUse(m.c, vpcID)
           THEN [m |-> m1, err |-> Wrap(AwsErr("DependencyViolation", ""), "failed to delete VPC")]
           ELSE [m |-> [m1 EXCEPT !.c.vpc[vpcID].st = "gone", !.c.route[vpcID] = NIL],
                 err |-> NoErr]
         : m1 \in {Call(m, "DeleteVpc", vpcID)} })

CreateVPC(m, a, input) ==
    Only({ IF a.fail = "CreateVpc"
           THEN [m |-> m1, err |-> Wrap(Internal(a), "failed to create VPC"), vpc |-> NIL]
           ELSE IF id = NIL
           THEN [m |-> m1, err |-> Wrap(AwsErr("VpcLimitExceeded", ""), "failed to create VPC"),
                 vpc |-> NIL]
           ELSE [m |-> [m1 EXCEPT !.c.vpc[id] = [st |-> "live", managed |-> input.managed,
                                                 name |-> input.name, cidr |-> input.cidr]],
                 err |-> NoErr, vpc |-> id]
         : m1 \in {Call(m, "CreateVpc", NIL)}, id \in {FreshId(m.c.vpc)} })

\* EC2 DescribeInternetGateways with an attachment.vpc-id filter.
DescribeInternetGateways(m, a, vpcID) ==
    IF a.fail = "DescribeInternetGateways"
    THEN [m |-> Call(m, "DescribeInternetGateways", vpcID), err |-> Internal(a), out |-> {}]
    ELSE [m |-> Call(m, "DescribeInternetGateways", vpcID), err |-> NoErr,
          out |-> {g \in Ids : Live(m.c.igw[g]) /\ m.c.igw[g].vpc = vpcID}]

findInternetGateway(m, a, vpcID) ==
    Only({ IF d.err # NoErr
           THEN [m |-> d.m, err |-> Wrap(d.err, "failed to describe Internet Gateways"),
                 igw |-> NIL]
           ELSE IF d.out # {} THEN [m |-> d.m, err |-> NoErr, igw |-> SetMin(d.out)]
           ELSE [m |-> d.m, err |-> NoErr, igw |-> NIL]
         : d \in {DescribeInternetGateways(m, a, vpcID)} })

configureRouteTable(m, a, vpcID, igwID) ==
    Only({ IF a.fail = "DescribeRouteTables"
           THEN [m |-> m1, err |-> Wrap(Internal(a), "failed to describe route tables")]
           ELSE IF ~Live(m.c.vpc[vpcID])
           THEN [m |-> m1, err |-> ErrorsNew("no main route table found for VPC")]
           ELSE IF a.fail = "CreateRoute"
           THEN [m |-> Call(m1, "CreateRoute", vpcID),
                 err |-> Wrap(Internal(a), "failed to add route to Internet Gateway")]
           ELSE IF m.c.route[vpcID] # NIL /\ a.dupRoute
           THEN [m |-> Call(m1, "CreateRoute", vpcID),
                 err |-> Wrap(AwsErr("RouteAlreadyExists", ""),
                              "failed to add route to Internet Gateway")]
           ELSE [m |-> [Call(m1, "CreateRoute", vpcID) EXCEPT !.c.route[vpcID] = igwID],
                 err |-> NoErr]
         : m1 \in {Call(m, "DescribeRouteTables", vpcID)} })

\* "if err != nil { return errors.Wrap(err, text) }; return nil" on a result.
WrapErr(r, text) ==
    IF r.err # NoErr THEN [m |-> r.m, err |-> Wrap(r.err, text)]
    ELSE [m |-> r.m, err |-> NoErr]

\* CreateOrGetInternetGateway when no gateway is attached to the VPC: the
\* gateway is created with an empty input (no tags), then attached.
createInternetGateway(m, a, vpcID) ==
    Only({ IF a.fail = "CreateInternetGateway"
           THEN [m |-> m1, err |-> Wrap(Internal(a), "failed to create Internet Gateway")]
           ELSE IF id = NIL
           THEN [m |-> m1, err |-> Wrap(AwsErr("InternetGatewayLimitExceeded", ""),
                                        "failed to create Internet Gateway")]
           ELSE Only({ IF a.fail = "AttachInternetGateway"
                       THEN [m |-> m2,
                             err |-> Wrap(Internal(a), "failed to attach Internet Gateway to VPC")]
                       ELSE WrapErr(configureRouteTable([m2 EXCEPT !.c.igw[id].vpc = vpcID],
                                                        a, vpcID, id),
                                    "failed to configure route table for Internet Gateway")
                     : m2 \in {Call([m1 EXCEPT !.c.igw[id] = [st |-> "live", managed |-> FALSE, vpc |-> NIL]],
                                    "AttachInternetGateway", id)} })
         : m1 \in {Call(m, "CreateInternetGateway", NIL)}, id \in {FreshId(m.c.igw)} })

CreateOrGetInternetGateway(m, a, vpcID) ==
    Only({ IF f.err # NoErr
           THEN [m |-> f.m, err |-> Wrap(f.err, "failed to find Internet Gateway")]
           ELSE IF f.igw # NIL
           THEN WrapErr(configureRouteTable(f.m, a, vpcID, f.igw),
                        "failed to configure route table for Internet Gateway")
           ELSE createInternetGateway(f.m, a, vpcID)
         : f \in {findInternetGateway(m, a, vpcID)} })

\* The loop of DetachAndDeleteInternetGateway over the gateways still to do.
RECURSIVE DetachAndDeleteEach(_, _, _, _)
DetachAndDeleteEach(m, a, vpcID, todo) ==
    IF todo = {} THEN [m |-> m, err |-> NoErr]
    ELSE Only({ IF a.fail = "DetachInternetGateway"
                THEN [m |-> m1, err |-> Wrap(Internal(a), "failed to detach Internet Gateway")]
                ELSE Only({ IF a.fail = "DeleteInternetGateway"
                            THEN [m |-> m2,
                                  err |-> Wrap(Internal(a), "failed to delete Internet Gateway")]
                            ELSE DetachAndDeleteEach([m2 EXCEPT !.c.igw[g].st = "gone"],
                                                     a, vpcID, todo \ {g})
                          : m2 \in {Call([m1 EXCEPT !.c.igw[g].vpc = NIL],
                                         "DeleteInternetGateway", g)} })
              : g \in {SetMin(todo)}, m1 \in {Call(m, "DetachInternetGateway", SetMin(todo))} })

DetachAndDeleteInternetGateway(m, a, vpcID) ==
    Only({ IF d.err # NoErr
           THEN [m |-> d.m, err |-> Wrap(d.err, "failed to describe Internet Gateway")]
           ELSE DetachAndDeleteEach(d.m, a, vpcID, d.out)
         : d \in {DescribeInternetGateways(m, a, vpcID)} })

\* ------------------------------------------------------- networks.Service
createOrGetVPC(m, a) ==
    Only({ IF f.err # NoErr
           THEN [m |-> f.m, err |-> Wrap(f.err, "failed to search for VPC"), vpc |-> NIL]
           ELSE IF f.vpc # NIL
           THEN [m |-> SetVPCName(SetVPCID(f.m, f.vpc), f.m.c.vpc[f.vpc].name),
                 err |-> NoErr, vpc |-> f.vpc]
           ELSE Only({ IF cr.err # NoErr THEN [m |-> cr.m, err |-> cr.err, vpc |-> NIL]
                       ELSE [m |-> SetVPCName(SetVPCID(cr.m, cr.vpc), VPCName(m.s)),
                             err |-> NoErr, vpc |-> cr.vpc]
                     : cr \in {CreateVPC(f.m, a, VPCSpec(f.m.s))} })
         : f \in {FindVPCByIDOrName(m, a, m.s.vpcID, VPCName(m.s))} })

NetworksReconcile(m, a) ==
    Only({ IF v.err # NoErr THEN [m |-> v.m, err |-> Wrap(v.err, "failed to reconcile VPC")]
           ELSE WrapErr(CreateOrGetInternetGateway(v.m, a, v.vpc),
                        "failed to reconcile Internet Gateway")
         : v \in {createOrGetVPC(m, a)} })

\* A faulty variant of Delete, which C18 excludes: it goes on to DeleteVpc
\* whatever became of the gateways.
NetworksDeleteLax(m, a) ==
    IF m.s.vpcID = NIL THEN [m |-> m, err |-> NoErr]
    ELSE Only({ IF im.err # NoErr
                THEN [m |-> im.m, err |-> Wrap(im.err, "failed to check if VPC is managed")]
                ELSE IF ~im.val THEN [m |-> im.m, err |-> NoErr]
                ELSE Only({ DeleteVPC(dg.m, a, m.s.vpcID)
                          : dg \in {DetachAndDeleteInternetGateway(im.m, a, m.s.vpcID)} })
              : im \in {IsManagedVPC(m, a, m.s.vpcID)} })

NetworksDelete(m, a) ==
    IF m.s.vpcID = NIL THEN [m |-> m, err |-> NoErr]
    ELSE Only({ IF im.err # NoErr
                THEN [m |-> im.m, err |-> Wrap(im.err, "failed to check if VPC is managed")]
                ELSE IF ~im.val THEN [m |-> im.m, err |-> NoErr]
                ELSE Only({ IF dg.err # NoErr
                            THEN [m |-> dg.m,
                                  err |-> Wrap(dg.err, "failed to detach and delete Internet Gateway")]
                            ELSE DeleteVPC(dg.m, a, m.s.vpcID)
                          : dg \in {DetachAndDeleteInternetGateway(im.m, a, m.s.vpcID)} })
              : im \in {IsManagedVPC(m, a, m.s.vpcID)} })

\* ------------------------------------------------------------ CIDR helpers
\* An IPv4 address is its four bytes (net.IP); a block is the address as
\* written and the prefix length.
IPLen == 4
ByteBits == 8
ByteSize == 256
Pow2(n) == 2 ^ n
\* The number of mask bits that fall into byte j of a prefix of that length.
MaskBitsOf(bits, j) ==
    LET k == bits - ByteBits * (j - 1)
    IN  IF k < 0 THEN 0 ELSE IF k > ByteBits THEN ByteBits ELSE k
\* net.IP.Mask / the IP field of the net.IPNet that net.ParseCIDR returns.
MaskIP(ip, bits) ==
    LET f == [j \in 1 .. IPLen |-> ip[j] - (ip[j] % Pow2(ByteBits - MaskBitsOf(bits, j)))]
    IN  <<f[1], f[2], f[3], f[4]>>
\* net.IPNet.Contains
Contains(cidr, ip) == MaskIP(ip, cidr.bits) = MaskIP(cidr.base, cidr.bits)
\* incrementIP: byte-wise increment from the last byte, carrying while a
\* byte wraps to 0.
RECURSIVE incrementFrom(_, _)
incrementFrom(ip, j) ==
    IF j < 1 THEN ip
    ELSE LET b == (ip[j] + 1) % ByteSize
             ip1 == [ip EXCEPT ![j] = b]
         IN  IF b > 0 THEN ip1 ELSE incrementFrom(ip1, j - 1)

incrementIP(ip) == incrementFrom(ip, IPLen)

\* bytes.Compare: -1, 0 or 1 by the first byte that differs.
RECURSIVE compareFrom(_, _, _)
compareFrom(x, y, j) ==
    IF j > IPLen THEN 0
    ELSE IF x[j] < y[j] THEN -1
    ELSE IF x[j] > y[j] THEN 1
    ELSE compareFrom(x, y, j + 1)

bytesCompare(x, y) == compareFrom(x, y, 1)

parseCIDR(cidr) ==
    LET firstIP == MaskIP(cidr.base, cidr.bits)
        l == [j \in 1 .. IPLen |->
                 firstIP[j] + Pow2(ByteBits - MaskBitsOf(cidr.bits, j)) - 1]
    IN  [first |-> firstIP, last |-> <<l[1], l[2], l[3], l[4]>>]

isCIDRInUse(candidateCIDR, usedCIDRs) ==
    LET cand == parseCIDR(candidateCIDR)
    IN  \E u \in usedCIDRs :
            LET used == parseCIDR(u)
            IN  bytesCompare(cand.first, used.last) <= 0
                /\ bytesCompare(cand.last, used.first) >= 0

NoCIDR == [base |-> <<>>, bits |-> NIL]

\* The iterations of findAvailableCIDR's loop that share the first three
\* bytes of ip: the loop stops at the first address that has left the VPC
\* block (no block found) or whose candidate is not in use (found);
\* otherwise it goes on from incrementIP of the last address of the run.
scanLastByte(vpcCIDR, usedCIDRs, subnetMask, ip) ==
    LET at(x) == [ip EXCEPT ![IPLen] = x]
        candidateCIDR(x) == [base |-> at(x), bits |-> subnetMask]
        stopsAt(x) == \/ ~Contains(vpcCIDR, at(x))
                      \/ ~isCIDRInUse(candidateCIDR(x), usedCIDRs)
        stops == IF stopsAt(ip[IPLen]) THEN {ip[IPLen]}
                 ELSE {x \in ip[IPLen] + 1 .. ByteSize - 1 : stopsAt(x)}
    IN  IF stops = {}
        THEN [done |-> FALSE, ip |-> incrementIP(at(ByteSize - 1)), cidr |-> NoCIDR]
        ELSE LET x == SetMin(stops)
             IN  [done |-> TRUE, ip |-> at(x),
                  cidr |-> IF Contains(vpcCIDR, at(x)) THEN candidateCIDR(x) ELSE NoCIDR]

RECURSIVE findAvailableFrom(_, _, _, _)
findAvailableFrom(vpcCIDR, usedCIDRs, subnetMask, ip) ==
    Only({ IF r.done THEN r.cidr
           ELSE findAvailableFrom(vpcCIDR, usedCIDRs, subnetMask, r.ip)
         : r \in {scanLastByte(vpcCIDR, usedCIDRs, subnetMask, ip)} })

\* A faulty variant of findAvailableCIDR, which C12 excludes: when the scan
\* finds nothing it returns the first block it tried.
findAvailableCIDROrFirst(vpcCIDR, usedCIDRs, subnetMask) ==
    Only({ IF r = NoCIDR
           THEN [base |-> MaskIP(vpcCIDR.base, vpcCIDR.bits), bits |-> subnetMask]
           ELSE r
         : r \in {findAvailableFrom(vpcCIDR, usedCIDRs, subnetMask,
                                    MaskIP(vpcCIDR.base, vpcCIDR.bits))} })

\* NoCIDR stands for the error "no available CIDR block found".
findAvailableCIDR(vpcCIDR, usedCIDRs, subnetMask) ==
    findAvailableFrom(vpcCIDR, usedCIDRs, subnetMask, MaskIP(vpcCIDR.base, vpcCIDR.bits))

\* -------------------------------------------------------- AWSClient: subnet
\* EC2 DescribeSubnets with SubnetIds.
DescribeSubnetsByID(m, a, id) ==
    IF a.fail = "DescribeSubnets"
    THEN [m |-> Call(m, "DescribeSubnets", id), err |-> Internal(a), out |-> {}]
    ELSE IF ~Live(m.c.subnet[id])
    THEN [m |-> Call(m, "DescribeSubnets", id),
          err |-> AwsErr("InvalidSubnetID.NotFound", ""), out |-> {}]
    ELSE [m |-> Call(m, "DescribeSubnets", id), err |-> NoErr, out |-> {id}]

FindSubnetByID(m, a, subnetID) ==
    Only({ IF d.err # NoErr
           THEN [m |-> d.m, err |-> Wrap(d.err, "failed to describe subnet by ID"),
                 subnet |-> NIL]
           ELSE IF d.out = {}
           THEN [m |-> d.m, err |-> ErrorsNew("subnet not found"), subnet |-> NIL]
           ELSE [m |-> d.m, err |-> NoErr, subnet |-> SetMin(d.out)]
         : d \in {DescribeSubnetsByID(m, a, subnetID)} })

IsManagedSubnet(m, a, subnetID) ==
    Only({ IF d.err # NoErr
           THEN IF IsNotFound(d.err) THEN [m |-> d.m, err |-> NoErr, val |-> FALSE]
                ELSE [m |-> d.m, err |-> Wrap(d.err, "failed to describe subnet"), val |-> FALSE]
           ELSE [m |-> d.m, err |-> NoErr, val |-> m.c.subnet[SetMin(d.out)].managed]
         : d \in {DescribeSubnetsByID(m, a, subnetID)} })

getVPCCIDR(m, a, vpcID) ==
    Only({ IF d.err # NoErr
           THEN [m |-> d.m, err |-> Wrap(d.err, "failed to describe VPC"), cidr |-> NoCIDR]
           ELSE IF d.out = {}
           THEN [m |-> d.m, err |-> ErrorsNew("no VPC found"), cidr |-> NoCIDR]
           ELSE [m |-> d.m, err |-> NoErr, cidr |-> m.c.vpc[SetMin(d.out)].cidr]
         : d \in {DescribeVpcsByID(m, a, vpcID)} })

\* The blocks of the subnets of a VPC (DescribeSubnets with a vpc-id filter).
SubnetCIDRs(c, vpcID) ==
    {c.subnet[i].cidr : i \in {j \in Ids : Live(c.subnet[j]) /\ c.subnet[j].vpc = vpcID}}

\* What EC2 CreateSubnet accepts: an aligned block inside the VPC's block
\* that overlaps no subnet of the VPC.
SubnetCidrValid(c, vpcID, cidr) ==
    /\ MaskIP(cidr.base, cidr.bits) = cidr.base
    /\ cidr.bits >= c.vpc[vpcID].cidr.bits
    /\ Contains(c.vpc[vpcID].cidr, cidr.base)
    /\ ~isCIDRInUse(cidr, SubnetCIDRs(c, vpcID))

\* CreateSubnet from the EC2 CreateSubnet call on, for the block chosen.
createSubnetCall(m1, a, vpcName, vpcID, cidrBlock) ==
    IF cidrBlock = NoCIDR
    THEN [m |-> m1, err |-> Wrap(ErrorsNew("no available CIDR block found"),
                                 "failed to find available CIDR block"), subnet |-> NIL]
    ELSE Only({ IF a.fail = "CreateSubnet"
                THEN [m |-> m2, err |-> Wrap(Internal(a), "failed to create subnet"),
                      subnet |-> NIL]
                ELSE IF ~SubnetCidrValid(m1.c, vpcID, cidrBlock)
                THEN [m |-> m2, err |-> Wrap(AwsErr("InvalidSubnet.Range", ""),
                                             "failed to create subnet"), subnet |-> NIL]
                ELSE IF id = NIL
                THEN [m |-> m2, err |-> Wrap(AwsErr("SubnetLimitExceeded", ""),
                                             "failed to create subnet"), subnet |-> NIL]
                ELSE [m |-> [m2 EXCEPT !.c.subnet[id] =
                                 [st |-> "live", managed |-> TRUE, vpc |-> vpcID,
                                  cidr |-> cidrBlock, name |-> vpcName \o "-subnet"]],
                      err |-> NoErr, subnet |-> id]
              : m2 \in {Call(m1, "CreateSubnet", NIL)}, id \in {FreshId(m1.c.subnet)} })

CreateSubnet(m, a, vpcName, vpcID) ==
    IF vpcID = NIL
    THEN [m |-> m, err |-> ErrorsNew("VPC ID is not set in scope"), subnet |-> NIL]
    ELSE Only({ IF cr.err # NoErr
                THEN [m |-> cr.m, err |-> Wrap(cr.err, "failed to retrieve VPC CIDR"),
                      subnet |-> NIL]
                ELSE IF a.fail = "DescribeSubnets"
                THEN [m |-> Call(cr.m, "DescribeSubnets", NIL),
                      err |-> Wrap(Internal(a), "failed to describe subnets"), subnet |-> NIL]
                ELSE createSubnetCall(Call(cr.m, "DescribeSubnets", NIL), a, vpcName, vpcID,
                         findAvailableCIDR(cr.cidr, SubnetCIDRs(m.c, vpcID), SubnetMask))
              : cr \in {getVPCCIDR(m, a, vpcID)} })

\* An instance the provider still counts against its subnet and group.
Attached(r) == r.st \notin {"free", "gone", "terminated"}

DeleteSubnet(m, a, subnetID) ==
    Only({ IF a.fail = "DeleteSubnet"
           THEN [m |-> m1, err |-> Wrap(Internal(a), "failed to delete subnet")]
           ELSE IF ~Live(m.c.subnet[subnetID])
           THEN [m |-> m1, err |-> Wrap(AwsErr("InvalidSubnetID.NotFound", ""),
                                        "failed to delete subnet")]
           ELSE IF \E i \in Ids : Attached(m.c.inst[i]) /\ m.c.inst[i].subnet = subnetID
           THEN [m |-> m1, err |-> Wrap(AwsErr("DependencyViolation", ""),
                                        "failed to delete subnet")]
           ELSE [m |-> [m1 EXCEPT !.c.subnet[subnetID].st = "gone"], err |-> NoErr]
         : m1 \in {Call(m, "DeleteSubnet", subnetID)} })

\* ---------------------------------------------------------- subnet.Service
SubnetReconcile(m, a) ==
    IF m.s.subnetID # NIL
    THEN Only({ IF f.err # NoErr
                THEN [m |-> f.m, err |-> Wrap(f.err, "failed to find user-specified subnet")]
                ELSE [m |-> SetSubnet(f.m, f.subnet), err |-> NoErr]
              : f \in {FindSubnetByID(m, a, m.s.subnetID)} })
    ELSE Only({ IF cr.err # NoErr
                THEN [m |-> cr.m, err |-> Wrap(cr.err, "failed to create subnet")]
                ELSE [m |-> SetSubnet(cr.m, cr.subnet), err |-> NoErr]
              : cr \in {CreateSubnet(m, a, VPCName(m.s), m.s.vpcID)} })

SubnetDelete(m, a) ==
    IF m.s.subnetID = NIL THEN [m |-> m, err |-> NoErr]
    ELSE Only({ IF im.err # NoErr
                THEN [m |-> im.m, err |-> Wrap(im.err, "failed to check if subnet is managed")]
                ELSE IF ~im.val THEN [m |-> im.m, err |-> NoErr]
                ELSE DeleteSubnet(im.m, a, m.s.subnetID)
              : im \in {IsManagedSubnet(m, a, m.s.subnetID)} })

\* ------------------------------------------------ AWSClient: security group
CreateSecurityGroup(m, a, vpcID, sgName) ==
    LET m1 == Call(m, "CreateSecurityGroup", NIL)
        id == FreshId(m.c.sg)
    IN  IF a.fail = "CreateSecurityGroup"
        THEN [m |-> m1, err |-> Wrap(Internal(a), "failed to create Security Group"), sg |-> NIL]
        ELSE IF ~Live(m.c.vpc[vpcID])
        THEN [m |-> m1, err |-> Wrap(AwsErr("InvalidVpcID.NotFound", ""),
                                     "failed to create Security Group"), sg |-> NIL]
        ELSE IF \E i \in Ids : Live(m.c.sg[i]) /\ m.c.sg[i].vpc = vpcID /\ m.c.sg[i].name = sgName
        THEN [m |-> m1, err |-> Wrap(AwsErr("InvalidGroup.Duplicate", ""),
                                     "failed to create Security Group"), sg |-> NIL]
        ELSE IF id = NIL
        THEN [m |-> m1, err |-> Wrap(AwsErr("SecurityGroupLimitExceeded", ""),
                                     "failed to create Security Group"), sg |-> NIL]
        ELSE [m |-> [m1 EXCEPT !.c.sg[id] = [st |-> "live", managed |-> TRUE, vpc |-> vpcID,
                                             name |-> sgName, ssh |-> FALSE]],
              err |-> NoErr, sg |-> id]

\* A faulty variant of AuthorizeSecurityGroupIngress, which C26 excludes: the
\* call adds no rule.
AuthorizeSecurityGroupIngressNone(m, a, sgID) ==
    LET m1 == Call(m, "AuthorizeSecurityGroupIngress", sgID)
    IN  IF a.fail = "AuthorizeSecurityGroupIngress"
        THEN [m |-> m1, err |-> Wrap(Internal(a), "failed to add ingress rule to Security Group")]
        ELSE [m |-> m1, err |-> NoErr]

AuthorizeSecurityGroupIngress(m, a, sgID) ==
    LET m1 == Call(m, "AuthorizeSecurityGroupIngress", sgID)
    IN  IF a.fail = "AuthorizeSecurityGroupIngress"
        THEN [m |-> m1, err |-> Wrap(Internal(a), "failed to add ingress rule to Security Group")]
        ELSE [m |-> [m1 EXCEPT !.c.sg[sgID].ssh = TRUE], err |-> NoErr]

IsManagedSecurityGroup(m, a, sgID) ==
    LET m1 == Call(m, "DescribeSecurityGroups", sgID)
    IN  IF a.fail = "DescribeSecurityGroups"
        THEN [m |-> m1, err |-> Wrap(Internal(a), "failed to describe Security Group"), val |-> FALSE]
        ELSE IF ~Live(m.c.sg[sgID])
        THEN [m |-> m1, err |-> Wrap(AwsErr("InvalidGroup.NotFound", ""),
                                     "failed to describe Security Group"), val |-> FALSE]
        ELSE [m |-> m1, err |-> NoErr, val |-> m.c.sg[sgID].managed]

DeleteSecurityGroup(m, a, sgID) ==
    LET m1 == Call(m, "DeleteSecurityGroup", sgID)
    IN  IF a.fail = "DeleteSecurityGroup"
        THEN [m |-> m1, err |-> Wrap(Internal(a), "failed to delete Security Group")]
        ELSE IF ~Live(m.c.sg[sgID])
        THEN [m |-> m1, err |-> Wrap(AwsErr("InvalidGroup.NotFound", ""),
                                     "failed to delete Security Group")]
        ELSE IF \E i \in Ids : Attached(m.c.inst[i]) /\ m.c.inst[i].sg = sgID
        THEN [m |-> m1, err |-> Wrap(AwsErr("DependencyViolation", ""),
                                     "failed to delete Security Group")]
        ELSE [m |-> [m1 EXCEPT !.c.sg[sgID].st = "gone"], err |-> NoErr]

\* --------------------------------------------------- securitygroup.Service
InstanceStatusTerminated == "TERMINATED"

\* The values declared for the type InstanceStatus.
InstanceStatusValues ==
    {"PROVISIONING", "REPAIRING", "RUNNING", "STAGING", "STOPPED", "STOPPING",
     "SUSPENDED", "SUSPENDING", InstanceStatusTerminated}

SecurityGroupReconcile(m, a) ==
    IF m.s.sgID # NIL THEN [m |-> m, err |-> NoErr]
    ELSE IF m.s.vpcID = NIL
    THEN [m |-> m, err |-> ErrorsNew("VPC ID is required to create a Security Group")]
    ELSE Only({ IF cr.err # NoErr
                THEN [m |-> cr.m, err |-> Wrap(cr.err, "failed to create Security Group")]
                ELSE Only({ IF au.err # NoErr
                            THEN [m |-> au.m, err |-> Wrap(au.err,
                                      "failed to add SSH ingress rule to Security Group")]
                            ELSE [m |-> SetSecurityGroupID(au.m, cr.sg), err |-> NoErr]
                          : au \in {AuthorizeSecurityGroupIngress(cr.m, a, cr.sg)} })
              : cr \in {CreateSecurityGroup(m, a, m.s.vpcID, SecurityGroupName(m.s))} })

\* A faulty variant of SecurityGroupDelete, which C3 excludes: it waits only
\* while the status is RUNNING or PENDING.
SecurityGroupDeleteLax(m, a) ==
    IF m.s.instanceStatus = "" THEN [m |-> m, err |-> PanicErr]
    ELSE IF m.s.instanceStatus \in {"RUNNING", "PENDING"}
    THEN [m |-> m, err |-> ErrInstanceNotTerminated]
    ELSE IF m.s.sgID = NIL THEN [m |-> m, err |-> NoErr]
    ELSE Only({ IF im.err # NoErr
                THEN [m |-> im.m,
                      err |-> Wrap(im.err, "failed to check if Security Group is managed")]
                ELSE IF ~im.val THEN [m |-> im.m, err |-> NoErr]
                ELSE DeleteSecurityGroup(im.m, a, m.s.sgID)
              : im \in {IsManagedSecurityGroup(m, a, m.s.sgID)} })

SecurityGroupDelete(m, a) ==
    IF m.s.instanceStatus = "" THEN [m |-> m, err |-> PanicErr]
    ELSE IF m.s.instanceStatus # InstanceStatusTerminated
    THEN [m |-> m, err |-> ErrInstanceNotTerminated]
    ELSE IF m.s.sgID = NIL THEN [m |-> m, err |-> NoErr]
    ELSE Only({ IF im.err # NoErr
                THEN [m |-> im.m,
                      err |-> Wrap(im.err, "failed to check if Security Group is managed")]
                ELSE IF ~im.val THEN [m |-> im.m, err |-> NoErr]
                ELSE DeleteSecurityGroup(im.m, a, m.s.sgID)
              : im \in {IsManagedSecurityGroup(m, a, m.s.sgID)} })

\* ------------------------------------------------------ AWSClient: instance
\* EC2 DescribeInstances with InstanceIds.
DescribeInstances(m, a, id) ==
    LET m1 == Call(m, "DescribeInstances", id)
    IN  IF a.fail = "DescribeInstances" THEN [m |-> m1, err |-> Internal(a), out |-> {}]
        ELSE IF ~Live(m.c.inst[id])
        THEN [m |-> m1, err |-> AwsErr("InvalidInstanceID.NotFound", ""), out |-> {}]
        ELSE [m |-> m1, err |-> NoErr, out |-> {id}]

IsManagedInstance(m, a, instanceID) ==
    Only({ IF d.err # NoErr
           THEN IF IsNotFound(d.err) THEN [m |-> d.m, err |-> NoErr, val |-> FALSE]
                ELSE [m |-> d.m, err |-> d.err, val |-> FALSE]
           ELSE IF d.out = {} THEN [m |-> d.m, err |-> NoErr, val |-> FALSE]
           ELSE [m |-> d.m, err |-> NoErr, val |-> m.c.inst[SetMin(d.out)].managed]
         : d \in {DescribeInstances(m, a, instanceID)} })

FindInstanceByID(m, a, instanceID) ==
    Only({ IF d.err # NoErr
           THEN IF IsNotFound(d.err) THEN [m |-> d.m, err |-> NoErr, inst |-> NIL]
                ELSE [m |-> d.m, err |-> d.err, inst |-> NIL]
           ELSE IF instanceID \in d.out THEN [m |-> d.m, err |-> NoErr, inst |-> instanceID]
           ELSE [m |-> d.m, err |-> NoErr, inst |-> NIL]
         : d \in {DescribeInstances(m, a, instanceID)} })

CreateInstance(m, a, params) ==
    LET m1 == Call(m, "RunInstances", NIL)
        id == FreshId(m.c.inst)
    IN  IF a.fail = "RunInstances"
        THEN [m |-> m1, err |-> Wrap(Internal(a), "failed to run EC2 instance"), inst |-> NIL]
        ELSE IF ~Live(m.c.subnet[params.SubnetID])
        THEN [m |-> m1, err |-> Wrap(AwsErr("InvalidSubnetID.NotFound", ""),
                                     "failed to run EC2 instance"), inst |-> NIL]
        ELSE IF ~Live(m.c.sg[params.SecurityGroupID])
        THEN [m |-> m1, err |-> Wrap(AwsErr("InvalidGroup.NotFound", ""),
                                     "failed to run EC2 instance"), inst |-> NIL]
        ELSE IF m.c.subnet[params.SubnetID].vpc # m.c.sg[params.SecurityGroupID].vpc
        THEN [m |-> m1, err |-> Wrap(AwsErr("InvalidParameter", ""),
                                     "failed to run EC2 instance"), inst |-> NIL]
        ELSE IF id = NIL
        THEN [m |-> m1, err |-> Wrap(AwsErr("InstanceLimitExceeded", ""),
                                     "failed to run EC2 instance"), inst |-> NIL]
        ELSE [m |-> [m1 EXCEPT !.c.inst[id] = [st |-> "pending", managed |-> TRUE,
                                               subnet |-> params.SubnetID,
                                               sg |-> params.SecurityGroupID]],
              err |-> NoErr, inst |-> id]

TerminateInstance(m, a, instanceID) ==
    LET m1 == Call(m, "TerminateInstances", instanceID)
    IN  IF a.fail = "TerminateInstances"
        THEN [m |-> m1, err |-> Wrap(Internal(a), "failed to terminate EC2 instance")]
        ELSE IF ~Live(m.c.inst[instanceID])
        THEN [m |-> m1, err |-> Wrap(AwsErr("InvalidInstanceID.NotFound", ""),
                                     "failed to terminate EC2 instance")]
        ELSE [m |-> [m1 EXCEPT !.c.inst[instanceID].st =
                         IF @ = "terminated" THEN "terminated" ELSE "shutting-down"],
              err |-> NoErr]

\* ------------------------------------------------------- instances.Service
\* strings.ToUpper on the EC2 instance state names.
ToUpper(state) ==
    CASE state = "pending" -> "PENDING"
      [] state = "running" -> "RUNNING"
      [] state = "shutting-down" -> "SHUTTING-DOWN"
      [] state = "terminated" -> "TERMINATED"
      [] state = "stopping" -> "STOPPING"
      [] state = "stopped" -> "STOPPED"

\* The provider lists no network interface for a terminated instance.
HasNetworkInterface(r) == r.st # "terminated"

createOrGetInstance(m, a) ==
    IF m.s.instanceID = NIL
    THEN CreateInstance(m, a, [SubnetID |-> m.s.subnetID, SecurityGroupID |-> m.s.sgID])
    ELSE Only({ IF f.err # NoErr
                THEN [m |-> f.m, err |-> Wrap(f.err, "failed to find instance by ID"),
                      inst |-> NIL]
                ELSE IF f.inst # NIL THEN f
                ELSE CreateInstance(f.m, a, [SubnetID |-> f.m.s.subnetID,
                                             SecurityGroupID |-> f.m.s.sgID])
              : f \in {FindInstanceByID(m, a, m.s.instanceID)} })

InstancesReconcile(m, a) ==
    Only({ IF g.err # NoErr THEN [m |-> g.m, err |-> g.err]
           ELSE Only({ IF HasNetworkInterface(m1.c.inst[g.inst]) /\ a.nilAssoc
                       THEN [m |-> m1, err |-> PanicErr]
                       ELSE IF a.fail = "EnsureCredentialsSecret"
                       THEN [m |-> Call(m1, "EnsureCredentialsSecret", g.inst),
                             err |-> Internal(a)]
                       ELSE [m |-> SetInstanceStatus(
                                       Call(m1, "EnsureCredentialsSecret", g.inst),
                                       ToUpper(m1.c.inst[g.inst].st)),
                             err |-> NoErr]
                     : m1 \in {SetInstanceID(g.m, g.inst)} })
         : g \in {createOrGetInstance(m, a)} })

\* Delete once the instance is known to be managed and was looked up.
\* A faulty variant of terminateFound, which C6 excludes: it takes the
\* instance for terminated as soon as the terminate call returned.
terminateFoundEager(f, a, instanceID) ==
    IF f.err # NoErr
    THEN IF IsNotFound(f.err)
         THEN [m |-> SetInstanceStatus(f.m, InstanceStatusTerminated), err |-> NoErr]
         ELSE [m |-> f.m, err |-> Wrap(f.err, "failed to describe instance")]
    ELSE IF f.inst = NIL THEN [m |-> f.m, err |-> PanicErr]
    ELSE Only({ IF t.err # NoErr THEN [m |-> t.m, err |-> t.err]
                ELSE [m |-> SetInstanceStatus(t.m, InstanceStatusTerminated), err |-> NoErr]
              : t \in {TerminateInstance(f.m, a, instanceID)} })

\* A faulty variant of terminateFound, which C21 excludes: it terminates
\* whatever state the instance is in.
terminateFoundAgain(f, a, instanceID) ==
    IF f.err # NoErr
    THEN IF IsNotFound(f.err)
         THEN [m |-> SetInstanceStatus(f.m, InstanceStatusTerminated), err |-> NoErr]
         ELSE [m |-> f.m, err |-> Wrap(f.err, "failed to describe instance")]
    ELSE IF f.inst = NIL THEN [m |-> f.m, err |-> PanicErr]
    ELSE Only({ Only({ IF t.err # NoErr THEN [m |-> t.m, err |-> t.err]
                       ELSE [m |-> SetInstanceStatus(t.m, "Terminating"), err |-> NoErr]
                     : t \in {TerminateInstance(SetInstanceStatus(f.m, ToUpper(state)),
                                                a, instanceID)} })
              : state \in {f.m.c.inst[f.inst].st} })

\* When TerminateInstance fails the first text returns the error, the second
\* returns nil.
terminateFound(f, a, instanceID) ==
    IF f.err # NoErr
    THEN IF IsNotFound(f.err)
         THEN [m |-> SetInstanceStatus(f.m, InstanceStatusTerminated), err |-> NoErr]
         ELSE [m |-> f.m, err |-> Wrap(f.err, "failed to describe instance")]
    ELSE IF f.inst = NIL THEN [m |-> f.m, err |-> PanicErr]
    ELSE Only({ IF state = "terminated" \/ state = "shutting-down"
                THEN [m |-> SetInstanceStatus(f.m, ToUpper(state)), err |-> NoErr]
                ELSE Only({ IF t.err # NoErr
                            THEN [m |-> t.m, err |-> IF a.second THEN NoErr ELSE t.err]
                            ELSE [m |-> SetInstanceStatus(t.m, "Terminating"), err |-> NoErr]
                          : t \in {TerminateInstance(SetInstanceStatus(f.m, ToUpper(state)),
                                                     a, instanceID)} })
              : state \in {f.m.c.inst[f.inst].st} })

InstancesDelete(m, a) ==
    IF m.s.instanceID = NIL THEN [m |-> m, err |-> NoErr]
    ELSE Only({ IF im.err # NoErr
                THEN [m |-> im.m, err |-> Wrap(im.err, "failed to check if instance is managed")]
                ELSE IF ~im.val THEN [m |-> im.m, err |-> NoErr]
                ELSE terminateFound(FindInstanceByID(im.m, a, m.s.instanceID), a,
                                    m.s.instanceID)
              : im \in {IsManagedInstance(m, a, m.s.instanceID)} })

\* --------------------------------------------------------- AWSClient: image
\* The self-owned images named imageName, in the order the provider lists them.
RECURSIVE SortedSeq(_, _)
SortedSeq(S, rev) ==
    IF S = {} THEN <<>>
    ELSE LET x == IF rev THEN CHOOSE i \in S : \A j \in S : i >= j ELSE SetMin(S)
         IN  <<x>> \o SortedSeq(S \ {x}, rev)

ImagesNamed(c, a, imageName) ==
    SortedSeq({i \in Ids : Live(c.image[i]) /\ c.image[i].name = imageName}, a.rev)

\* A faulty variant of the loop of EnsureAMIDoesNotExist, which C15 excludes:
\* it deregisters every image of the name, whatever its age.
RECURSIVE DeregisterEvery(_, _, _, _)
DeregisterEvery(m, a, images, buildCreationTime) ==
    IF images = <<>> THEN [m |-> m, err |-> NoErr]
    ELSE IF a.fail = "DeregisterImage"
    THEN [m |-> Call(m, "DeregisterImage", Head(images)),
          err |-> Wrap(Internal(a), "failed to deregister outdated AMI")]
    ELSE DeregisterEvery([Call(m, "DeregisterImage", Head(images))
                             EXCEPT !.c.image[Head(images)].st = "gone"], a,
                         Tail(images), buildCreationTime)

RECURSIVE DeregisterOutdated(_, _, _, _)
DeregisterOutdated(m, a, images, buildCreationTime) ==
    IF images = <<>> THEN [m |-> m, err |-> NoErr]
    ELSE LET amiID == Head(images)
             m1 == Call(m, "DeregisterImage", amiID)
         IN  IF m.c.image[amiID].created < buildCreationTime
             THEN IF a.fail = "DeregisterImage"
                  THEN [m |-> m1, err |-> Wrap(Internal(a), "failed to deregister outdated AMI")]
                  ELSE DeregisterOutdated([m1 EXCEPT !.c.image[amiID].st = "gone"], a,
                                          Tail(images), buildCreationTime)
             ELSE DeregisterOutdated(m, a, Tail(images), buildCreationTime)

EnsureAMIDoesNotExist(m, a, imageName, creationDate) ==
    LET m1 == Call(m, "DescribeImages", NIL)
    IN  IF a.fail = "DescribeImages"
        THEN [m |-> m1, err |-> Wrap(Internal(a), "failed to describe AMIs")]
        ELSE DeregisterOutdated(m1, a, ImagesNamed(m.c, a, imageName), creationDate)

CheckAMIStatus(m, a, imageName) ==
    LET m1 == Call(m, "DescribeImages", NIL)
        images == ImagesNamed(m.c, a, imageName)
    IN  IF a.fail = "DescribeImages"
        THEN [m |-> m1, err |-> Wrap(Internal(a), "failed to describe AMI status"),
              id |-> NIL, state |-> ""]
        ELSE IF Len(images) > 0
        THEN [m |-> m1, err |-> NoErr, id |-> images[1], state |-> m.c.image[images[1]].st]
        ELSE [m |-> m1, err |-> NoErr, id |-> NIL, state |-> ""]

\* The time the provider stamps on an image it creates now: not before the build.
ImageCreatedNow == BuildCreated + 1

CreateAMI(m, a, instanceID, imageName) ==
    LET m1 == Call(m, "CreateImage", instanceID)
        id == FreshId(m.c.image)
    IN  IF a.fail = "CreateImage"
        THEN [m |-> m1, err |-> Wrap(Internal(a), "failed to create AMI")]
        ELSE IF ~Live(m.c.inst[instanceID])
        THEN [m |-> m1, err |-> Wrap(AwsErr("InvalidInstanceID.NotFound", ""), "failed to create AMI")]
        ELSE IF m.c.inst[instanceID].st \notin {"running", "stopped"}
        THEN [m |-> m1, err |-> Wrap(AwsErr("IncorrectInstanceState", ""), "failed to create AMI")]
        ELSE IF \E i \in Ids : Live(m.c.image[i]) /\ m.c.image[i].name = imageName
        THEN [m |-> m1, err |-> Wrap(AwsErr("InvalidAMIName.Duplicate", ""), "failed to create AMI")]
        ELSE IF id = NIL
        THEN [m |-> m1, err |-> Wrap(AwsErr("ResourceLimitExceeded", ""), "failed to create AMI")]
        ELSE [m |-> [m1 EXCEPT !.c.image[id] = [st |-> "pending", managed |-> FALSE,
                                                name |-> imageName,
                                                created |-> ImageCreatedNow]],
              err |-> NoErr]

\* ---------------------------------------------------------- images.Service
\* A faulty variant of Reconcile, which C16 excludes: it takes a pending image
\* for a missing one and creates again.
ImagesReconcileImpatient(m, a) ==
    IF ~m.provisionersReady \/ m.s.ready THEN [m |-> m, err |-> NoErr]
    ELSE IF m.s.instanceID = NIL
    THEN [m |-> m, err |-> ErrorsNew("instance ID is not set, cannot create image")]
    ELSE Only({ IF e.err # NoErr THEN [m |-> e.m, err |-> e.err]
                ELSE Only({ IF st.err # NoErr THEN [m |-> st.m, err |-> st.err]
                            ELSE IF st.state = "available"
                            THEN [m |-> SetArtifactRef(st.m, st.id), err |-> NoErr]
                            ELSE CreateAMI(st.m, a, m.s.instanceID, m.s.name)
                          : st \in {CheckAMIStatus(e.m, a, m.s.name)} })
              : e \in {EnsureAMIDoesNotExist(m, a, m.s.name, m.s.created)} })

ImagesReconcile(m, a) ==
    IF ~m.provisionersReady \/ m.s.ready THEN [m |-> m, err |-> NoErr]
    ELSE IF m.s.instanceID = NIL
    THEN [m |-> m, err |-> ErrorsNew("instance ID is not set, cannot create image")]
    ELSE Only({ IF e.err # NoErr THEN [m |-> e.m, err |-> e.err]
                ELSE Only({ IF st.err # NoErr THEN [m |-> st.m, err |-> st.err]
                            ELSE IF st.state = "available"
                            THEN [m |-> SetArtifactRef(st.m, st.id), err |-> NoErr]
                            ELSE IF st.state = "pending" THEN [m |-> st.m, err |-> NoErr]
                            ELSE CreateAMI(st.m, a, m.s.instanceID, m.s.name)
                          : st \in {CheckAMIStatus(e.m, a, m.s.name)} })
              : e \in {EnsureAMIDoesNotExist(m, a, m.s.name, m.s.created)} })

ImagesDelete(m, a) == [m |-> m, err |-> NoErr]

\* ------------------------------------------------------- AWSBuildReconciler
recordEvent(m, eventType, reason) == [m EXCEPT !.events = Append(@, <<eventType, reason>>)]

StageDelete(stage, m, a) ==
    CASE stage = "instances" -> InstancesDelete(m, a)
      [] stage = "securitygroup" -> SecurityGroupDelete(m, a)
      [] stage = "subnet" -> SubnetDelete(m, a)
      [] stage = "networks" -> NetworksDelete(m, a)
      [] stage = "images" -> ImagesDelete(m, a)

StageReconcile(stage, m, a) ==
    CASE stage = "networks" -> NetworksReconcile(m, a)
      [] stage = "subnet" -> SubnetReconcile(m, a)
      [] stage = "securitygroup" -> SecurityGroupReconcile(m, a)
      [] stage = "instances" -> InstancesReconcile(m, a)
      [] stage = "images" -> ImagesReconcile(m, a)

\* The kinds of provider resource.
Kinds == {"vpc", "igw", "subnet", "sg", "inst", "image"}

\* One entry of the pass's record of the stage calls it made: the stage and
\* the operation, the error returned, the AWSBuild before and after the call,
\* the positions in the pass's provider calls where the call's own begin
\* (from + 1) and end (to), and the kinds of resource that came to exist at the
\* provider during the call.
Ran(m, stage, op, r) ==
    [r.m EXCEPT !.stages = Append(@, [stage |-> stage, op |-> op, err |-> r.err,
                                      pre |-> m.s, post |-> r.m.s,
                                      from |-> Len(m.calls), to |-> Len(r.m.calls),
                                      made |-> {k \in Kinds : \E i \in Ids :
                                                   ~Live(m.c[k][i]) /\ Live(r.m.c[k][i])}])]

\* A faulty order of the delete stages, which C5 excludes: the subnet before
\* the security group.
DeleteOrderSwapped == <<"instances", "subnet", "securitygroup", "networks">>

DeleteOrder == <<"instances", "securitygroup", "subnet", "networks">>
NormalOrder == <<"networks", "subnet", "securitygroup", "instances", "images">>

RECURSIVE deleteLoop(_, _, _)
deleteLoop(m, a, reconcilers) ==
    IF reconcilers = <<>>
    THEN [m |-> [recordEvent([m EXCEPT !.s.finalizer = FALSE], "Normal", "Reconciled")
                    EXCEPT !.s.cleanedUp = TRUE],
          requeueAfter |-> 0, err |-> NoErr]
    ELSE Only({ IF r.err = PanicErr
                THEN [m |-> Ran(m, Head(reconcilers), "Delete", r), requeueAfter |-> 0,
                      err |-> PanicErr]
                ELSE IF r.err # NoErr
                THEN IF IsInstanceNotTerminated(r.err)
                     THEN [m |-> Ran(m, Head(reconcilers), "Delete", r),
                           requeueAfter |-> RequeueSeconds, err |-> NoErr]
                     ELSE [m |-> recordEvent(Ran(m, Head(reconcilers), "Delete", r),
                                             "Warning", "Cleaning Up Failed"),
                           requeueAfter |-> 0, err |-> r.err]
                ELSE deleteLoop(Ran(m, Head(reconcilers), "Delete", r), a, Tail(reconcilers))
              : r \in {StageDelete(Head(reconcilers), m, a)} })

\* A faulty variant of reconcileDelete, which C4 excludes: it leaves out the
\* network stage.
reconcileDeleteShort(m, a) == deleteLoop(m, a, <<"instances", "securitygroup", "subnet">>)

reconcileDelete(m, a) == deleteLoop(m, a, DeleteOrder)

\* A faulty variant of the loop of reconcileNormal, which C23 excludes: it
\* goes on to the next stage after a stage returned an error.
RECURSIVE normalLoopOn(_, _, _)
normalLoopOn(m, a, reconcilers) ==
    IF reconcilers = <<>> THEN [m |-> m, done |-> TRUE, err |-> NoErr]
    ELSE Only({ normalLoopOn(Ran(m, Head(reconcilers), "Reconcile", r), a, Tail(reconcilers))
              : r \in {StageReconcile(Head(reconcilers), m, a)} })

\* The loop over the stages of reconcileNormal; done is FALSE when it returned.
RECURSIVE normalLoop(_, _, _)
normalLoop(m, a, reconcilers) ==
    IF reconcilers = <<>> THEN [m |-> m, done |-> TRUE, err |-> NoErr]
    ELSE Only({ IF r.err = PanicErr
                THEN [m |-> Ran(m, Head(reconcilers), "Reconcile", r), done |-> FALSE,
                      err |-> PanicErr]
                ELSE IF r.err # NoErr
                THEN [m |-> recordEvent(Ran(m, Head(reconcilers), "Reconcile", r),
                                        "Warning", "Building Failed"),
                      done |-> FALSE, err |-> r.err]
                ELSE normalLoop(Ran(m, Head(reconcilers), "Reconcile", r), a,
                                Tail(reconcilers))
              : r \in {StageReconcile(Head(reconcilers), m, a)} })

\* A faulty variant of afterLoop, which C37 excludes: it sets the ready flag
\* as soon as an instance id is recorded, without the artifact reference.
afterLoopHasty(m, a) ==
    IF m.s.ready /\ ~m.s.cleanedUp THEN reconcileDelete(m, a)
    ELSE IF m.s.instanceID = NIL
    THEN [m |-> recordEvent(m, "Normal", "AWSBuildReconciler"),
          requeueAfter |-> RequeueSeconds, err |-> NoErr]
    ELSE [m |-> recordEvent([recordEvent(m, "Normal", "InstanceCreated")
                                EXCEPT !.s.machineReady = TRUE, !.s.ready = TRUE],
                            "Normal", "Reconciled"),
          requeueAfter |-> 0, err |-> NoErr]

\* A faulty variant of afterLoop, which C38 excludes: it goes to
\* reconcileDelete for every ready build, cleaned up or not.
afterLoopAgain(m, a) ==
    IF m.s.ready THEN reconcileDelete(m, a)
    ELSE IF m.s.instanceID = NIL
    THEN [m |-> recordEvent(m, "Normal", "AWSBuildReconciler"),
          requeueAfter |-> RequeueSeconds, err |-> NoErr]
    ELSE LET m1 == [recordEvent(m, "Normal", "InstanceCreated") EXCEPT !.s.machineReady = TRUE]
         IN  IF m.s.artifactRef = NIL
             THEN [m |-> recordEvent(m1, "Normal", "WaitBuilding"),
                   requeueAfter |-> RequeueSeconds, err |-> NoErr]
             ELSE [m |-> recordEvent([recordEvent(m1, "Normal", "ImageReady")
                                         EXCEPT !.s.ready = TRUE], "Normal", "Reconciled"),
                   requeueAfter |-> 0, err |-> NoErr]

\* reconcileNormal from the check of the ready flag that follows the loop.
afterLoop(m, a) ==
    IF m.s.ready /\ ~m.s.cleanedUp THEN reconcileDelete(m, a)
    ELSE IF m.s.instanceID = NIL
    THEN [m |-> recordEvent(m, "Normal", "AWSBuildReconciler"),
          requeueAfter |-> RequeueSeconds, err |-> NoErr]
    ELSE LET m1 == [recordEvent(m, "Normal", "InstanceCreated") EXCEPT !.s.machineReady = TRUE]
         IN  IF m.s.artifactRef = NIL
             THEN [m |-> recordEvent(m1, "Normal", "WaitBuilding"),
                   requeueAfter |-> RequeueSeconds, err |-> NoErr]
             ELSE [m |-> recordEvent([recordEvent(m1, "Normal", "ImageReady")
                                         EXCEPT !.s.ready = TRUE], "Normal", "Reconciled"),
                   requeueAfter |-> 0, err |-> NoErr]

reconcileNormal(m, a) ==
    IF a.fail = "GetSSHKey"
    THEN [m |-> m, requeueAfter |-> 0, err |-> Wrap(Internal(a), "unable to get an ssh-key")]
    ELSE IF ~m.s.ready
    THEN Only({ IF ~l.done THEN [m |-> l.m, requeueAfter |-> 0, err |-> l.err]
                ELSE IF a.fail = "PatchObject"
                THEN [m |-> Call([l.m EXCEPT !.s.finalizer = TRUE], "PatchObject", NIL),
                      requeueAfter |-> 0, err |-> Internal(a)]
                ELSE afterLoop(Call([l.m EXCEPT !.s.finalizer = TRUE], "PatchObject", NIL), a)
              : l \in {normalLoop(m, a, NormalOrder)} })
    ELSE afterLoop(m, a)

\* A faulty variant of AWSBuildReconciler.Reconcile, which C24 excludes: it
\* lacks the deferred Close.
PassUnsaved(obj, c, prov, a) ==
    Only({ [obj |-> obj,
            c |-> r.m.c,
            log |-> [kind |-> IF obj.deleting /\ obj.finalizer THEN "delete" ELSE "normal",
                     stages |-> r.m.stages, calls |-> r.m.calls, events |-> r.m.events,
                     requeueAfter |-> r.requeueAfter, pipeErr |-> r.err,
                     err |-> IF r.err = NoErr /\ a.fail = "PatchObject" THEN Internal(a)
                             ELSE r.err,
                     written |-> FALSE, answers |-> a]]
         : r \in {IF obj.deleting /\ obj.finalizer
                  THEN reconcileDelete([s |-> obj, c |-> c, calls |-> <<>>, events |-> <<>>,
                                        stages |-> <<>>, provisionersReady |-> prov], a)
                  ELSE reconcileNormal([s |-> obj, c |-> c, calls |-> <<>>, events |-> <<>>,
                                        stages |-> <<>>, provisionersReady |-> prov], a)} })

\* AWSBuildReconciler.Reconcile on the object obj read from the store: the
\* pipeline that applies, then the deferred Close, which writes the object
\* back (a failed write leaves the stored object as it was).
Pass(obj, c, prov, a) ==
    Only({ [obj |-> IF a.fail = "PatchObject" THEN obj ELSE r.m.s,
            c |-> r.m.c,
            log |-> [kind |-> IF obj.deleting /\ obj.finalizer THEN "delete" ELSE "normal",
                     stages |-> r.m.stages, calls |-> Append(r.m.calls, <<"PatchObject", NIL>>), events |-> r.m.events,
                     requeueAfter |-> r.requeueAfter, pipeErr |-> r.err,
                     err |-> IF r.err = NoErr /\ a.fail = "PatchObject" THEN Internal(a)
                             ELSE r.err,
                     written |-> a.fail # "PatchObject", answers |-> a]]
         : r \in {IF obj.deleting /\ obj.finalizer
                  THEN reconcileDelete([s |-> obj, c |-> c, calls |-> <<>>, events |-> <<>>,
                                        stages |-> <<>>, provisionersReady |-> prov], a)
                  ELSE reconcileNormal([s |-> obj, c |-> c, calls |-> <<>>, events |-> <<>>,
                                        stages |-> <<>>, provisionersReady |-> prov], a)} })

\* ------------------------------------------------------------------- state
VARIABLES
    awsBuild,            \* the AWSBuild object as stored (spec, status, metadata)
    present,             \* the object is in the store
    cloud,               \* the provider's resources
    provisionersReady,   \* Build.Status.ProvisionersReady of the owner Build
    lastPass,            \* what the last invocation did; "none" after an outside change
    anomalies            \* how many invocations met an anomalous answer so far

vars == <<awsBuild, present, cloud, provisionersReady, lastPass, anomalies>>

NoPass ==
    [kind |-> "none", stages |-> <<>>, calls |-> <<>>, events |-> <<>>,
     requeueAfter |-> 0, pipeErr |-> NoErr, err |-> NoErr, written |-> FALSE,
     answers |-> NoAnomaly]

\* A foreign subnet or group lives in VPC 0 when that exists, else in a VPC
\* the build has nothing to do with.
Elsewhere == -2

VpcCases == {"none", "named-plain", "named-tagged", "user-absent", "user-plain", "user-tagged"}
UserCases == {"none", "user-absent", "user-plain", "user-tagged"}
InstCases == {"none", "user-absent", "user-plain", "user-tagged"}
ImageCases == {"none", "before", "at", "after"}

Scenarios ==
    {sc \in [vpc : VpcCases, subnet : UserCases, sg : UserCases, inst : InstCases,
             image : ImageCases] :
        Cardinality({f \in {"vpc", "subnet", "sg", "inst", "image"} : sc[f] # "none"})
            <= MaxDeviations}

Present(case) == case \notin {"none", "user-absent"}
Tagged(case) == case \in {"named-tagged", "user-tagged"}
Supplied(case) == IF case \in {"user-absent", "user-plain", "user-tagged"} THEN ForeignId ELSE NIL

InitBuild(sc) ==
    [name |-> BuildName, created |-> BuildCreated,
     vpcID |-> Supplied(sc.vpc), netName |-> "",
     subnetID |-> Supplied(sc.subnet), sgID |-> Supplied(sc.sg),
     instanceID |-> Supplied(sc.inst), instanceStatus |-> "",
     artifactRef |-> NIL, ready |-> FALSE, cleanedUp |-> FALSE, machineReady |-> FALSE,
     finalizer |-> FALSE, deleting |-> FALSE]

InitCloud(sc) ==
    LET home == IF Present(sc.vpc) THEN ForeignId ELSE Elsewhere
    IN  [vpc |-> [i \in Ids |->
                    IF i = ForeignId /\ Present(sc.vpc)
                    THEN [st |-> "live", managed |-> Tagged(sc.vpc),
                          name |-> IF sc.vpc \in {"named-plain", "named-tagged"}
                                   THEN BuildName \o "-forge-vpc" ELSE "other",
                          cidr |-> DefaultCIDR]
                    ELSE NoVpc],
         igw |-> [i \in Ids |-> NoIgw],
         route |-> [i \in Ids |-> NIL],
         subnet |-> [i \in Ids |->
                    IF i = ForeignId /\ Present(sc.subnet)
                    THEN [st |-> "live", managed |-> Tagged(sc.subnet), vpc |-> home,
                          cidr |-> [base |-> VpcCidrBase, bits |-> SubnetMask], name |-> "other"]
                    ELSE NoSubnet],
         sg |-> [i \in Ids |->
                    IF i = ForeignId /\ Present(sc.sg)
                    THEN [st |-> "live", managed |-> Tagged(sc.sg), vpc |-> home,
                          name |-> "other", ssh |-> FALSE]
                    ELSE NoSg],
         inst |-> [i \in Ids |->
                    IF i = ForeignId /\ Present(sc.inst)
                    THEN [st |-> "running", managed |-> Tagged(sc.inst), subnet |-> NIL, sg |-> NIL]
                    ELSE NoInst],
         image |-> [i \in Ids |->
                    IF i = ForeignId /\ sc.image # "none"
                    THEN [st |-> "available", managed |-> FALSE, name |-> BuildName,
                          created |-> CASE sc.image = "before" -> BuildCreated - 1
                                        [] sc.image = "at" -> BuildCreated
                                        [] sc.image = "after" -> BuildCreated + 1]
                    ELSE NoImage]]

Init ==
    \E sc \in Scenarios :
        /\ awsBuild = InitBuild(sc)
        /\ present = TRUE
        /\ cloud = InitCloud(sc)
        /\ provisionersReady = FALSE
        /\ lastPass = NoPass
        /\ anomalies = 0

\* ----------------------------------------------------------------- actions
\* One invocation of AWSBuildReconciler.Reconcile for the build.
Reconcile ==
    /\ present
    /\ \E a \in Answers :
        /\ a = NoAnomaly \/ anomalies < MaxAnomalies
        /\ anomalies' = IF a = NoAnomaly THEN anomalies ELSE anomalies + 1
        /\ \E p \in {Pass(awsBuild, cloud, provisionersReady, a)} :
            /\ awsBuild' = p.obj
            /\ cloud' = p.c
            /\ lastPass' = p.log
            \* the store drops an object under deletion once its last finalizer is gone
            /\ present' = ~(p.obj.deleting /\ ~p.obj.finalizer)
    /\ UNCHANGED provisionersReady

\* The user deletes the AWSBuild: the store marks it, or drops it at once
\* when it carries no finalizer.
RequestDelete ==
    /\ present /\ ~awsBuild.deleting
    /\ IF awsBuild.finalizer
       THEN awsBuild' = [awsBuild EXCEPT !.deleting = TRUE] /\ present' = TRUE
       ELSE awsBuild' = awsBuild /\ present' = FALSE
    /\ lastPass' = NoPass
    /\ UNCHANGED <<cloud, provisionersReady, anomalies>>

\* The owner Build reports its provisioners done: they have worked on the
\* machine, which runs.
ProvisionersFinish ==
    /\ present /\ ~provisionersReady
    /\ awsBuild.machineReady
    /\ awsBuild.instanceID # NIL /\ cloud.inst[awsBuild.instanceID].st = "running"
    /\ provisionersReady' = TRUE
    /\ lastPass' = NoPass
    /\ UNCHANGED <<awsBuild, present, cloud, anomalies>>

\* The provider moves an instance along its lifecycle; a terminated instance
\* is forgotten after a while.
InstanceProgress ==
    \E i \in Ids :
        /\ cloud.inst[i].st \in {"pending", "shutting-down", "terminated"}
        /\ cloud' = [cloud EXCEPT !.inst[i].st =
                        CASE @ = "pending" -> "running"
                          [] @ = "shutting-down" -> "terminated"
                          [] @ = "terminated" -> "gone"]
        /\ lastPass' = NoPass
        /\ UNCHANGED <<awsBuild, present, provisionersReady, anomalies>>

\* The provider finishes an image, or gives it up.
ImageProgress ==
    \E i \in Ids, st \in {"available", "failed"} :
        /\ cloud.image[i].st = "pending"
        /\ cloud' = [cloud EXCEPT !.image[i].st = st]
        /\ lastPass' = NoPass
        /\ UNCHANGED <<awsBuild, present, provisionersReady, anomalies>>

Next ==
    \/ Reconcile
    \/ RequestDelete
    \/ ProvisionersFinish
    \/ InstanceProgress
    \/ ImageProgress

Spec == Init /\ [][Next]_vars

\* ------------------------------------------- subnet allocation on its own
\* AWSClient.CreateSubnet run against VPCs of several blocks that already
\* hold several subnets: the inputs findAvailableCIDR meets.
MaxUsed == 2

Block(a, b, c, d, bits) == [base |-> <<a, b, c, d>>, bits |-> bits]

\* Blocks a VPC may have (EC2 allows /16 to /28).
ParentBlocks ==
    {Block(10, 0, 0, 0, 16), Block(10, 0, 0, 0, 22), Block(10, 0, 0, 0, 23),
     Block(10, 0, 0, 0, 24), Block(10, 0, 1, 0, 24), Block(10, 0, 0, 0, 25),
     Block(10, 0, 0, 128, 25), Block(10, 0, 0, 64, 26)}

\* Blocks of the subnets found in the VPC.
UsedBlocks ==
    {Block(10, 0, 0, 0, 24), Block(10, 0, 1, 0, 24), Block(10, 0, 2, 0, 24),
     Block(10, 0, 0, 0, 23), Block(10, 0, 0, 0, 25), Block(10, 0, 0, 128, 25),
     Block(10, 0, 0, 64, 26), Block(10, 0, 0, 0, 22)}

\* The subnets of one VPC never overlap one another.
UsedSets ==
    {U \in SUBSET UsedBlocks :
        /\ Cardinality(U) <= MaxUsed
        /\ \A u \in U : ~isCIDRInUse(u, U \ {u})}

RECURSIVE SeqOfSet(_)
SeqOfSet(S) ==
    IF S = {} THEN <<>>
    ELSE LET x == CHOOSE y \in S : TRUE IN <<x>> \o SeqOfSet(S \ {x})

\* A provider that holds VPC 0 with block P and, in it, subnets with the
\* blocks of U (ids 0, 1, ...), none of them created by the controller.
AllocCloud(P, U) ==
    LET used == SeqOfSet(U)
        plain == InitCloud([vpc |-> "user-plain", subnet |-> "none", sg |-> "none",
                            inst |-> "none", image |-> "none"])
    IN  [plain EXCEPT
            !.vpc[ForeignId].cidr = P,
            !.subnet = [i \in Ids |->
                           IF i + 1 \in DOMAIN used
                           THEN [st |-> "live", managed |-> FALSE, vpc |-> ForeignId,
                                 cidr |-> used[i + 1], name |-> "other"]
                           ELSE NoSubnet]]

AllocInit ==
    \E P \in ParentBlocks, U \in UsedSets :
        /\ awsBuild = InitBuild([vpc |-> "user-plain", subnet |-> "none", sg |-> "none",
                                 inst |-> "none", image |-> "none"])
        /\ present = TRUE
        /\ cloud = AllocCloud(P, U)
        /\ provisionersReady = FALSE
        /\ lastPass = NoPass
        /\ anomalies = 0

\* One AWSClient.CreateSubnet call for the build's VPC; lastPass keeps the
\* arguments findAvailableCIDR got in it and the block it returned.
CreateSubnetCall ==
    /\ \E r \in {CreateSubnet([s |-> awsBuild, c |-> cloud, calls |-> <<>>, events |-> <<>>,
                               stages |-> <<>>, provisionersReady |-> provisionersReady],
                              NoAnomaly, VPCName(awsBuild), awsBuild.vpcID)} :
          /\ cloud' = r.m.c
          /\ lastPass' = [kind |-> "CreateSubnet", calls |-> r.m.calls, err |-> r.err,
                          subnet |-> r.subnet,
                          vpcCIDR |-> cloud.vpc[awsBuild.vpcID].cidr,
                          usedCIDRs |-> SubnetCIDRs(cloud, awsBuild.vpcID),
                          cidrBlock |-> findAvailableCIDR(cloud.vpc[awsBuild.vpcID].cidr,
                                                          SubnetCIDRs(cloud, awsBuild.vpcID),
                                                          SubnetMask)]
    /\ UNCHANGED <<awsBuild, present, provisionersReady, anomalies>>

AllocNext == CreateSubnetCall

AllocSpec == AllocInit /\ [][AllocNext]_vars

\* --------------------------------------------- the image stage on its own
\* images.Service.Reconcile run against providers that already hold up to
\* MaxImages self-owned images of the build's name, in every state and of
\* every age relative to the build.
MaxImages == 2

\* The states EC2 reports for an image that DescribeImages lists.
ImageStates == {"available", "pending", "failed"}

\* Creation times relative to the build's.
ImageTimes == {BuildCreated - 1, BuildCreated, BuildCreated + 1}

ImageTables ==
    {t \in [Ids -> [st : ImageStates, managed : {FALSE}, name : {BuildName},
                    created : ImageTimes] \cup {NoImage}] :
        \A i \in Ids : i >= MaxImages => t[i] = NoImage}

\* The answers that reach the image stage.
ImageAnswers ==
    {a \in Answers : a.fail \in {"none", "DescribeImages", "DeregisterImage", "CreateImage"}
                     /\ ~a.dupRoute /\ ~a.nilAssoc}

\* The build has passed the instance stage: its instance is recorded and runs.
ImageInit ==
    \E t \in ImageTables, prov \in BOOLEAN, rdy \in BOOLEAN :
        /\ awsBuild = [InitBuild([vpc |-> "none", subnet |-> "none", sg |-> "none",
                                  inst |-> "user-plain", image |-> "none"])
                          EXCEPT !.ready = rdy, !.machineReady = TRUE,
                                 !.instanceStatus = "RUNNING",
                                 !.artifactRef = IF rdy THEN ForeignId ELSE NIL]
        /\ present = TRUE
        /\ cloud = [InitCloud([vpc |-> "none", subnet |-> "none", sg |-> "none",
                               inst |-> "user-plain", image |-> "none"])
                       EXCEPT !.image = t]
        /\ provisionersReady = prov
        /\ lastPass = NoPass
        /\ anomalies = 0

\* One images.Service.Reconcile call; lastPass keeps the AWSBuild and the
\* provider's images as the call found them.
ImagesReconcileCall ==
    /\ \E a \in ImageAnswers :
        \E r \in {ImagesReconcile([s |-> awsBuild, c |-> cloud, calls |-> <<>>,
                                   events |-> <<>>, stages |-> <<>>,
                                   provisionersReady |-> provisionersReady], a)} :
            /\ awsBuild' = r.m.s
            /\ cloud' = r.m.c
            /\ lastPass' = [kind |-> "ImagesReconcile", calls |-> r.m.calls, err |-> r.err,
                            pre |-> awsBuild, preImages |-> cloud.image,
                            provisionersReady |-> provisionersReady, answers |-> a]
    /\ UNCHANGED <<present, provisionersReady, anomalies>>

ImageNext ==
    \/ ImagesReconcileCall
    \/ ImageProgress

ImageSpec == ImageInit /\ [][ImageNext]_vars

\* ------------------------------- the second text of instances.Service.Delete
\* The controller built with the second of the two texts of
\* instances.Service.Delete, on builds that name no network resource and no
\* image.
SecondAnswers == {[a EXCEPT !.second = TRUE] : a \in Answers}

SecondInit ==
    \E sc \in Scenarios :
        /\ sc.vpc = "none" /\ sc.subnet = "none" /\ sc.sg = "none" /\ sc.image = "none"
        /\ awsBuild = InitBuild(sc)
        /\ present = TRUE
        /\ cloud = InitCloud(sc)
        /\ provisionersReady = FALSE
        /\ lastPass = NoPass
        /\ anomalies = 0

ReconcileSecond ==
    /\ present
    /\ \E a \in SecondAnswers :
        /\ a = [NoAnomaly EXCEPT !.second = TRUE] \/ anomalies < MaxAnomalies
        /\ anomalies' = IF a = [NoAnomaly EXCEPT !.second = TRUE] THEN anomalies
                        ELSE anomalies + 1
        /\ \E p \in {Pass(awsBuild, cloud, provisionersReady, a)} :
            /\ awsBuild' = p.obj
            /\ cloud' = p.c
            /\ lastPass' = p.log
            /\ present' = ~(p.obj.deleting /\ ~p.obj.finalizer)
    /\ UNCHANGED provisionersReady

SecondNext ==
    \/ ReconcileSecond
    \/ RequestDelete
    \/ ProvisionersFinish
    \/ InstanceProgress
    \/ ImageProgress

SecondSpec == SecondInit /\ [][SecondNext]_vars

\* ------------------------------------------------------ fair re-invocation
\* The invocation in which every call succeeds.
ReconcilePlain ==
    /\ present
    /\ \E p \in {Pass(awsBuild, cloud, provisionersReady, NoAnomaly)} :
        /\ awsBuild' = p.obj
        /\ cloud' = p.c
        /\ lastPass' = p.log
        /\ present' = ~(p.obj.deleting /\ ~p.obj.finalizer)
    /\ UNCHANGED <<provisionersReady, anomalies>>

\* ENABLED <<ReconcilePlain>>_vars, written out.
ReconcilePlainActs ==
    /\ present
    /\ \E p \in {Pass(awsBuild, cloud, provisionersReady, NoAnomaly)} :
          <<p.obj, p.c, p.log>> # <<awsBuild, cloud, lastPass>>

\* The controller under the scheduling the work queue gives it: an invocation
\* that returned an error or asked for a requeue is followed by another, and
\* the provider holds no instance in a passing state for ever.  Both
\* conditions are weak fairness, WF_vars(ReconcilePlain) and
\* WF_vars(InstanceProgress); the first has ENABLED written out as the
\* state predicate ReconcilePlainActs.
\* The collaborators fail at most MaxAnomalies times, so that from some
\* invocation on every call succeeds.
FairSpec ==
    /\ SecondInit
    /\ [][Next]_vars
    /\ ([]<>(~ReconcilePlainActs) \/ []<><<ReconcilePlain>>_vars)
    /\ WF_vars(InstanceProgress)

\* ------------------------------------------------- a second build's resources
\* The controller working on build A while the provider holds what another
\* build B of the same name (in another namespace) created and still uses:
\* B's VPC, which carries the marker and the name A derives too, B's internet
\* gateway with the default route, and, as far as B got, B's subnet, security
\* group and instance.  They have the id ForeignId; A names no resource.
OtherBuildCases ==
    {sc \in [vpc : {"named-tagged"}, subnet : {"none", "user-tagged"},
             sg : {"none", "user-tagged"}, inst : {"none", "user-tagged"}, image : {"none"}] :
        /\ sc.sg # "none" => sc.subnet # "none"
        /\ sc.inst # "none" => sc.sg # "none"}

SharedInit ==
    \E sc \in OtherBuildCases :
        /\ awsBuild = InitBuild([vpc |-> "none", subnet |-> "none", sg |-> "none",
                                 inst |-> "none", image |-> "none"])
        /\ present = TRUE
        /\ cloud = [InitCloud(sc) EXCEPT
                        !.igw[ForeignId] = [st |-> "live", managed |-> FALSE, vpc |-> ForeignId],
                        !.route[ForeignId] = ForeignId]
        /\ provisionersReady = FALSE
        /\ lastPass = NoPass
        /\ anomalies = 0

SharedSpec == SharedInit /\ [][Next]_vars

\* ------------------------------------------ two workers in CreateSubnet
\* Two workers of the controller (MaxConcurrentReconciles: numWorkers), each
\* in AWSClient.CreateSubnet for a build of its own, on the same VPC.  Each
\* worker first lists the subnets of the VPC and computes a block, then calls
\* EC2 CreateSubnet with it; nothing orders the steps of one worker against
\* those of the other.  lastPass keeps, for each worker, where it is, the
\* blocks it was listed, the block it computed and what CreateSubnet
\* returned.
Workers == {"A", "B"}

AtList == [pc |-> "list", usedCIDRs |-> {}, cidrBlock |-> NoCIDR, err |-> NoErr, subnet |-> NIL]

RaceInit ==
    \E P \in ParentBlocks, U \in UsedSets :
        /\ awsBuild = InitBuild([vpc |-> "user-plain", subnet |-> "none", sg |-> "none",
                                 inst |-> "none", image |-> "none"])
        /\ present = TRUE
        /\ cloud = AllocCloud(P, U)
        /\ provisionersReady = FALSE
        /\ lastPass = [kind |-> "Race", worker |-> [w \in Workers |-> AtList]]
        /\ anomalies = 0

\* CreateSubnet up to the call of findAvailableCIDR.
ListSubnets(w) ==
    /\ lastPass.worker[w].pc = "list"
    /\ lastPass' = [lastPass EXCEPT !.worker[w] =
                        [pc |-> "create",
                         usedCIDRs |-> SubnetCIDRs(cloud, awsBuild.vpcID),
                         cidrBlock |-> findAvailableCIDR(cloud.vpc[awsBuild.vpcID].cidr,
                                                         SubnetCIDRs(cloud, awsBuild.vpcID),
                                                         SubnetMask),
                         err |-> NoErr, subnet |-> NIL]]
    /\ UNCHANGED <<awsBuild, present, cloud, provisionersReady, anomalies>>

\* CreateSubnet from the call of EC2 CreateSubnet on.
CreateListed(w) ==
    /\ lastPass.worker[w].pc = "create"
    /\ \E r \in {createSubnetCall([s |-> awsBuild, c |-> cloud, calls |-> <<>>,
                                    events |-> <<>>, stages |-> <<>>,
                                    provisionersReady |-> provisionersReady],
                                   NoAnomaly, VPCName(awsBuild), awsBuild.vpcID,
                                   lastPass.worker[w].cidrBlock)} :
          /\ cloud' = r.m.c
          /\ lastPass' = [lastPass EXCEPT !.worker[w].pc = "done",
                                          !.worker[w].err = r.err,
                                          !.worker[w].subnet = r.subnet]
    /\ UNCHANGED <<awsBuild, present, provisionersReady, anomalies>>

RaceNext == \E w \in Workers : ListSubnets(w) \/ CreateListed(w)

RaceSpec == RaceInit /\ [][RaceNext]_vars

\* =================================================================== claims
\* The stage calls of a pass, the provider calls a stage call made, and the
\* operations of a pass.
Stages(p) == {p.stages[i] : i \in DOMAIN p.stages}
CallsIn(p, e) == {p.calls[i] : i \in (e.from + 1) .. e.to}
CallsOf(p) == {p.calls[i] : i \in DOMAIN p.calls}
OpsOf(p) == {p.calls[i][1] : i \in DOMAIN p.calls}
EventsOf(p) == {p.events[i] : i \in DOMAIN p.events}
DeleteCall(p, stage) == {e \in Stages(p) : e.stage = stage /\ e.op = "Delete"}
ReconcileCall(p, stage) == {e \in Stages(p) : e.stage = stage /\ e.op = "Reconcile"}

DestructiveOps ==
    {"DeleteVpc", "DeleteSubnet", "DeleteSecurityGroup", "TerminateInstances",
     "DetachInternetGateway", "DeleteInternetGateway", "DeregisterImage"}

\* The resource a destructive call names carries forge-managed=true.
TargetMarked(call) ==
    CASE call[1] = "DeleteVpc" -> cloud.vpc[call[2]].managed
      [] call[1] = "DeleteSubnet" -> cloud.subnet[call[2]].managed
      [] call[1] = "DeleteSecurityGroup" -> cloud.sg[call[2]].managed
      [] call[1] = "TerminateInstances" -> cloud.inst[call[2]].managed
      [] call[1] \in {"DetachInternetGateway", "DeleteInternetGateway"} ->
             cloud.igw[call[2]].managed
      [] call[1] = "DeregisterImage" -> cloud.image[call[2]].managed

\* C1: every destructive provider call the system issues (DeleteVpc,
\* DeleteSubnet, DeleteSecurityGroup, TerminateInstances, DetachInternetGateway,
\* DeleteInternetGateway, DeregisterImage) names a resource that carries the
\* marker tag forge-managed=true. (Tags are never changed after creation, so
\* the tag in the state after the pass is the tag at the time of the call.)
C1_DestructiveCallsTargetMarked ==
    \A call \in CallsOf(lastPass) : call[1] \in DestructiveOps => TargetMarked(call)

\* A resource that lacks the marker tag, or is not there any more.
Unmarked(r) == ~(Live(r) /\ r.managed)

\* C2: in a pass whose provider calls all answer normally, each Delete of a
\* stage whose recorded id names a resource without the marker tag (absent
\* ones included) returns success and makes no delete, detach or terminate
\* call; for SecurityGroup.Delete the mirrored status is TERMINATED. The cloud
\* before the pass decides "unmarked": a resource without the tag, or absent,
\* stays so.
C2_UnmarkedDeleteIsNoOp ==
    [][\A e \in Stages(lastPass') :
         (/\ e.op = "Delete"
          /\ lastPass'.answers.fail = "none"
          /\ \/ e.stage = "networks" /\ e.pre.vpcID # NIL
                /\ Unmarked(cloud.vpc[e.pre.vpcID])
             \/ e.stage = "subnet" /\ e.pre.subnetID # NIL
                /\ Unmarked(cloud.subnet[e.pre.subnetID])
             \/ e.stage = "instances" /\ e.pre.instanceID # NIL
                /\ Unmarked(cloud.inst[e.pre.instanceID])
             \/ e.stage = "securitygroup" /\ e.pre.sgID # NIL
                /\ e.pre.instanceStatus = InstanceStatusTerminated
                /\ Unmarked(cloud.sg[e.pre.sgID]))
         => /\ e.err = NoErr
            /\ \A call \in CallsIn(lastPass', e) : call[1] \notin DestructiveOps]_vars

\* C3: SecurityGroup.Delete called with a mirrored instance status that is
\* set and is not TERMINATED ("Terminating" and SHUTTING-DOWN included)
\* returns the ErrInstanceNotTerminated sentinel and makes no provider call.
C3_SecurityGroupDeleteWaits ==
    \A e \in DeleteCall(lastPass, "securitygroup") :
        e.pre.instanceStatus \notin {"", InstanceStatusTerminated}
        => e.err = ErrInstanceNotTerminated /\ e.to = e.from

\* C3 witness: SecurityGroup.Delete ran with the status "Terminating" and a
\* recorded group id, returned the sentinel and called nothing.
C3_Witness ==
    \E e \in DeleteCall(lastPass, "securitygroup") :
        /\ e.pre.instanceStatus = "Terminating" /\ e.pre.sgID # NIL
        /\ e.err = ErrInstanceNotTerminated /\ e.to = e.from

\* The four Delete calls of the delete pipeline all ran and returned success.
AllDeletesOk(p) ==
    \A stage \in {"instances", "securitygroup", "subnet", "networks"} :
        \E e \in DeleteCall(p, stage) : e.err = NoErr

\* C4: the stored finalizer goes and the stored cleaned-up flag is set only
\* by a pass in which Instance.Delete, SecurityGroup.Delete, Subnet.Delete and
\* Network.Delete all returned success; after a pass in which a Delete
\* returned an error or the sentinel the finalizer is there and cleaned-up
\* is false.
C4_FinalizerGoesOnlyAfterCleanDelete ==
    [][/\ (\/ awsBuild.finalizer /\ ~awsBuild'.finalizer
           \/ ~awsBuild.cleanedUp /\ awsBuild'.cleanedUp)
          => AllDeletesOk(lastPass')
       /\ (\E e \in Stages(lastPass') : e.op = "Delete" /\ e.err # NoErr)
          => awsBuild'.finalizer /\ ~awsBuild'.cleanedUp]_vars

\* C4 witness: a delete pass whose four Delete calls succeeded has removed
\* the finalizer and set cleaned-up.
C4_Witness ==
    /\ lastPass.kind = "delete" /\ AllDeletesOk(lastPass)
    /\ ~awsBuild.finalizer /\ awsBuild.cleanedUp

\* The Delete calls of a pass, in the order they were made.
RECURSIVE DeletesFrom(_, _)
DeletesFrom(p, i) ==
    IF i > Len(p.stages) THEN <<>>
    ELSE IF p.stages[i].op = "Delete" THEN <<p.stages[i]>> \o DeletesFrom(p, i + 1)
    ELSE DeletesFrom(p, i + 1)

\* C5: the Delete calls of a pass are a prefix of Instance, SecurityGroup,
\* Subnet, Network, each made only after the one before returned success;
\* DeleteSubnet and DeleteVpc are called only in a pass whose
\* SecurityGroup.Delete saw the mirrored status TERMINATED, and DeleteVpc only
\* inside Network.Delete, after SecurityGroup.Delete and Subnet.Delete of the
\* same pass returned success.
C5_DeleteOrder ==
    LET d == DeletesFrom(lastPass, 1)
        order == <<"instances", "securitygroup", "subnet", "networks">>
    IN  /\ Len(d) <= Len(order)
        /\ \A i \in DOMAIN d : d[i].stage = order[i] /\ (i > 1 => d[i - 1].err = NoErr)
        /\ \A i \in DOMAIN lastPass.calls :
             /\ lastPass.calls[i][1] \in {"DeleteSubnet", "DeleteVpc"}
                => \E e \in DeleteCall(lastPass, "securitygroup") :
                       e.pre.instanceStatus = InstanceStatusTerminated /\ e.to < i
             /\ lastPass.calls[i][1] = "DeleteVpc"
                => /\ \E e \in DeleteCall(lastPass, "securitygroup") : e.err = NoErr
                   /\ \E e \in DeleteCall(lastPass, "subnet") : e.err = NoErr /\ e.to < i
                   /\ \E e \in DeleteCall(lastPass, "networks") : e.from < i /\ i <= e.to

\* C5 witness: a pass called DeleteSubnet and then DeleteVpc.
C5_Witness ==
    \E i, j \in DOMAIN lastPass.calls :
        i < j /\ lastPass.calls[i][1] = "DeleteSubnet" /\ lastPass.calls[j][1] = "DeleteVpc"

\* C6: a delete pass that starts with the mirrored status RUNNING and an
\* owned, running instance, and whose provider calls all answer normally,
\* calls TerminateInstances exactly once, sets the mirrored status to
\* "Terminating", gets the sentinel from SecurityGroup.Delete, calls neither
\* DeleteSubnet nor DeleteVpc, leaves the finalizer and asks for a requeue.
C6_FirstDeletePass ==
    [][(/\ lastPass'.kind = "delete" /\ lastPass'.answers.fail = "none"
        /\ awsBuild.instanceStatus = "RUNNING" /\ awsBuild.instanceID # NIL
        /\ cloud.inst[awsBuild.instanceID].st = "running"
        /\ cloud.inst[awsBuild.instanceID].managed)
       => /\ Cardinality({i \in DOMAIN lastPass'.calls :
                             lastPass'.calls[i][1] = "TerminateInstances"}) = 1
          /\ awsBuild'.instanceStatus = "Terminating"
          /\ \E e \in DeleteCall(lastPass', "securitygroup") :
                 e.err = ErrInstanceNotTerminated
          /\ OpsOf(lastPass') \cap {"DeleteSubnet", "DeleteVpc"} = {}
          /\ awsBuild'.finalizer
          /\ lastPass'.requeueAfter = RequeueSeconds /\ lastPass'.err = NoErr]_vars

\* C6 witness: a delete pass terminated the recorded instance, left the
\* status "Terminating" and asked for a requeue.
C6_Witness ==
    /\ lastPass.kind = "delete" /\ lastPass.answers.fail = "none"
    /\ <<"TerminateInstances", awsBuild.instanceID>> \in CallsOf(lastPass)
    /\ awsBuild.instanceStatus = "Terminating"
    /\ lastPass.requeueAfter = RequeueSeconds

\* C7: in the delete pipeline a Delete error that is ErrInstanceNotTerminated
\* makes reconcileDelete return requeue-after-5-seconds, no error and no
\* failure event; any other Delete error makes it record the warning event and
\* return that error with no requeue delay. The identity decides, not the text.
C7_SentinelByIdentity ==
    \A e \in Stages(lastPass) :
        e.op = "Delete" /\ e.err \notin {NoErr, PanicErr}
        => IF e.err.id = ErrInstanceNotTerminated.id
           THEN /\ lastPass.requeueAfter = RequeueSeconds /\ lastPass.pipeErr = NoErr
                /\ <<"Warning", "Cleaning Up Failed">> \notin EventsOf(lastPass)
           ELSE /\ lastPass.requeueAfter = 0 /\ lastPass.pipeErr = e.err
                /\ <<"Warning", "Cleaning Up Failed">> \in EventsOf(lastPass)

\* C7 witness: a Delete returned an error that is not the sentinel but
\* carries the sentinel's text; the pass recorded the warning and returned it.
C7_Witness ==
    \E e \in Stages(lastPass) :
        /\ e.op = "Delete" /\ e.err.id # ErrInstanceNotTerminated.id
        /\ \E i \in DOMAIN e.err.msg : e.err.msg[i] = NotTerminatedText
        /\ lastPass.pipeErr = e.err /\ lastPass.requeueAfter = 0
        /\ <<"Warning", "Cleaning Up Failed">> \in EventsOf(lastPass)

\* C8: Subnet.Reconcile with a user-supplied subnet id makes no CreateSubnet
\* call, SecurityGroup.Reconcile with a user-supplied group id makes neither
\* a CreateSecurityGroup nor an AuthorizeSecurityGroupIngress call, and no
\* pass ever calls DeleteSubnet or DeleteSecurityGroup on the user-supplied
\* resource.
C8_UserSuppliedNeverDeleted ==
    /\ \A e \in ReconcileCall(lastPass, "subnet") :
           e.pre.subnetID = ForeignId
           => \A call \in CallsIn(lastPass, e) : call[1] # "CreateSubnet"
    /\ \A e \in ReconcileCall(lastPass, "securitygroup") :
           e.pre.sgID = ForeignId
           => \A call \in CallsIn(lastPass, e) :
                  call[1] \notin {"CreateSecurityGroup", "AuthorizeSecurityGroupIngress"}
    /\ <<"DeleteSubnet", ForeignId>> \notin CallsOf(lastPass)
    /\ <<"DeleteSecurityGroup", ForeignId>> \notin CallsOf(lastPass)

CreateOps ==
    {"CreateVpc", "CreateInternetGateway", "CreateSubnet", "CreateSecurityGroup",
     "RunInstances", "CreateImage"}

\* The part of BuildState a stage's Reconcile writes.
StageState(stage, s) ==
    CASE stage = "networks" -> <<s.vpcID, s.netName>>
      [] stage = "subnet" -> <<s.subnetID>>
      [] stage = "securitygroup" -> <<s.sgID>>
      [] stage = "instances" -> <<s.instanceID, s.instanceStatus>>
      [] stage = "images" -> <<s.artifactRef, s.ready>>

\* The kind of resource a create call makes.
KindMade(op) ==
    CASE op = "CreateVpc" -> "vpc"
      [] op = "CreateInternetGateway" -> "igw"
      [] op = "CreateSubnet" -> "subnet"
      [] op = "CreateSecurityGroup" -> "sg"
      [] op = "RunInstances" -> "inst"
      [] op = "CreateImage" -> "image"

\* C9: when two invocations follow one another, the first one's BuildState
\* stored and nothing else changing the provider in between, a stage's
\* Reconcile in the second makes no create call for a kind of resource its
\* Reconcile in the first created; and when the first returned success the
\* second makes no create call at all and leaves the stage's part of
\* BuildState as the first left it.
C9_ReconcileTwice ==
    [][\A e1 \in Stages(lastPass), e2 \in Stages(lastPass') :
          (/\ e1.op = "Reconcile" /\ e2.op = "Reconcile" /\ e1.stage = e2.stage
           /\ lastPass.written)
          => /\ \A call \in CallsIn(lastPass', e2) :
                    call[1] \in CreateOps => KindMade(call[1]) \notin e1.made
             /\ e1.err = NoErr
                => /\ \A call \in CallsIn(lastPass', e2) : call[1] \notin CreateOps
                   /\ StageState(e2.stage, e2.post) = StageState(e1.stage, e1.post)]_vars

\* C10: Network.Reconcile over a VPC that is recorded and exists and whose
\* main route table already holds the default route to the gateway attached
\* to it returns no error when the provider's answers are normal, also when
\* the provider answers the route creation with "route already exists".
C10_RouteAlreadyExistsTolerated ==
    [][\A e \in ReconcileCall(lastPass', "networks") :
          (/\ lastPass'.answers.fail = "none"
           /\ awsBuild.vpcID # NIL /\ Live(cloud.vpc[awsBuild.vpcID])
           /\ cloud.route[awsBuild.vpcID] # NIL
           /\ cloud.igw[cloud.route[awsBuild.vpcID]].vpc = awsBuild.vpcID)
          => e.err = NoErr]_vars

\* An IPv4 address as a number, and the range of addresses of a block.
Addr(ip) == ((ip[1] * ByteSize + ip[2]) * ByteSize + ip[3]) * ByteSize + ip[4]
BlockSize(bits) == 2 ^ (IPLen * ByteBits - bits)
RangeOf(cidr) ==
    LET lo == Addr(cidr.base) - (Addr(cidr.base) % BlockSize(cidr.bits))
    IN  [first |-> lo, last |-> lo + BlockSize(cidr.bits) - 1]
Overlap(x, y) == x.first <= y.last /\ x.last >= y.first
Within(x, y) == y.first <= x.first /\ x.last <= y.last

\* The /24 blocks (by the number of their first address) that lie in P and
\* overlap no block of U, and those that hold an address of P.
TargetRange(k) == [first |-> k * BlockSize(SubnetMask), last |-> (k + 1) * BlockSize(SubnetMask) - 1]
BlocksMeeting(P) ==
    RangeOf(P).first \div BlockSize(SubnetMask) .. RangeOf(P).last \div BlockSize(SubnetMask)
FreeBlocks(P, U) ==
    {k \in BlocksMeeting(P) :
        /\ Within(TargetRange(k), RangeOf(P))
        /\ \A u \in U : ~Overlap(TargetRange(k), RangeOf(u))}

\* C11: whenever findAvailableCIDR(P, U, 24) returns a block, the block lies
\* inside P and its range is disjoint from the range of every block of U; and
\* it does return a block when some /24 block of P overlaps no block of U.
C11_AllocatedBlockInsideAndDisjoint ==
    lastPass.kind = "CreateSubnet"
    => /\ lastPass.cidrBlock # NoCIDR
          => /\ Within(RangeOf(lastPass.cidrBlock), RangeOf(lastPass.vpcCIDR))
             /\ \A u \in lastPass.usedCIDRs :
                    ~Overlap(RangeOf(lastPass.cidrBlock), RangeOf(u))
       /\ FreeBlocks(lastPass.vpcCIDR, lastPass.usedCIDRs) # {}
          => lastPass.cidrBlock # NoCIDR

C13_LowestAlignedBlock ==
    lastPass.kind = "CreateSubnet"
    => /\ FreeBlocks(lastPass.vpcCIDR, lastPass.usedCIDRs) # {}
          => /\ lastPass.cidrBlock # NoCIDR
             /\ lastPass.cidrBlock.bits = SubnetMask
             /\ Addr(lastPass.cidrBlock.base) =
                    SetMin(FreeBlocks(lastPass.vpcCIDR, lastPass.usedCIDRs))
                        * BlockSize(SubnetMask)
       /\ lastPass.cidrBlock # NoCIDR
          => Addr(lastPass.cidrBlock.base) % BlockSize(SubnetMask) = 0
       /\ (lastPass.vpcCIDR = DefaultCIDR /\ lastPass.usedCIDRs = {})
          => lastPass.cidrBlock = [base |-> VpcCidrBase, bits |-> SubnetMask]

\* The images of the build's name in an image table, the stale ones (created
\* before the build) and the build's own (created at or after it).
ImagesOfBuild(t) == {i \in Ids : Live(t[i]) /\ t[i].name = BuildName}
StaleImages(t) == {i \in ImagesOfBuild(t) : t[i].created < BuildCreated}
OwnImages(t) == {i \in ImagesOfBuild(t) : t[i].created >= BuildCreated}

\* The targets of the calls of operation op, in the order they were issued.
TargetsOf(calls, op) == SelectSeq(calls, LAMBDA c : c[1] = op)

\* An images.Service.Reconcile call inside its window (provisioners ready,
\* build not ready) that every provider call answered without an error.
ImageCallInWindow ==
    /\ lastPass.kind = "ImagesReconcile"
    /\ lastPass.provisionersReady /\ ~lastPass.pre.ready
    /\ lastPass.answers.fail = "none"

\* C14: given two images of the build's name, one created before the build
\* and one created at or after it, one images.Service.Reconcile call in its
\* window deregisters exactly the older one, leaves the newer one as it was and
\* issues no CreateImage call, in either listing order and whatever the state
\* of the newer image.
C14_StaleImageOnlyDeregistered ==
    (/\ ImageCallInWindow
     /\ Cardinality(StaleImages(lastPass.preImages)) = 1
     /\ Cardinality(OwnImages(lastPass.preImages)) = 1)
    => /\ \E o \in StaleImages(lastPass.preImages) :
            /\ TargetsOf(lastPass.calls, "DeregisterImage") = << <<"DeregisterImage", o>> >>
            /\ ~Live(cloud.image[o])
       /\ \A n \in OwnImages(lastPass.preImages) : cloud.image[n] = lastPass.preImages[n]
       /\ TargetsOf(lastPass.calls, "CreateImage") = <<>>

\* The image the lookup by name finds once the stale images are gone: the
\* first of the build's own images in the order the provider lists them, NIL
\* when there is none.
LookedUp(t, rev) ==
    IF OwnImages(t) = {} THEN NIL
    ELSE IF rev THEN CHOOSE i \in OwnImages(t) : \A j \in OwnImages(t) : i >= j
    ELSE SetMin(OwnImages(t))

\* C16: images.Service.Reconcile makes no provider call and changes nothing
\* in the AWSBuild unless provisioners are ready and the build is not ready.
\* Inside that window, when its calls answer without error: an available
\* image is recorded as the artifact reference and no CreateImage call is
\* issued; a pending image changes nothing; with any other state, or no image,
\* exactly one CreateImage call is issued, for the recorded instance, and no
\* artifact reference is recorded.
C16_ImageStateMachine ==
    lastPass.kind = "ImagesReconcile" =>
        /\ (~lastPass.provisionersReady \/ lastPass.pre.ready)
              => /\ lastPass.calls = <<>>
                 /\ awsBuild = lastPass.pre
                 /\ cloud.image = lastPass.preImages
        /\ ImageCallInWindow =>
              \E x \in {LookedUp(lastPass.preImages, lastPass.answers.rev)} :
                 /\ (x # NIL /\ lastPass.preImages[x].st = "available")
                       => /\ awsBuild = [lastPass.pre EXCEPT !.artifactRef = x]
                          /\ TargetsOf(lastPass.calls, "CreateImage") = <<>>
                 /\ (x # NIL /\ lastPass.preImages[x].st = "pending")
                       => /\ awsBuild = lastPass.pre
                          /\ TargetsOf(lastPass.calls, "CreateImage") = <<>>
                          /\ \A n \in OwnImages(lastPass.preImages) :
                                cloud.image[n] = lastPass.preImages[n]
                 /\ (x = NIL \/ lastPass.preImages[x].st \notin {"available", "pending"})
                       => /\ TargetsOf(lastPass.calls, "CreateImage")
                                = << <<"CreateImage", lastPass.pre.instanceID>> >>
                          /\ awsBuild = lastPass.pre

\* The three branches inside the window and the closed window are all met;
\* the witness is the branch that creates: no image of the build's own, one
\* CreateImage call, and the image now pending at the provider.
C16_Witness ==
    /\ ImageCallInWindow
    /\ LookedUp(lastPass.preImages, lastPass.answers.rev) = NIL
    /\ StaleImages(lastPass.preImages) # {}
    /\ lastPass.err = NoErr
    /\ TargetsOf(lastPass.calls, "CreateImage") = << <<"CreateImage", awsBuild.instanceID>> >>
    /\ \E i \in OwnImages(cloud.image) : cloud.image[i].st = "pending"

\* An invocation that issued a CreateImage call.
CreateIssued(p) == TargetsOf(p.calls, "CreateImage") # <<>>

\* C15: over the invocations for one build the image is exported exactly
\* once: at most one CreateImage call is ever issued (so never one in each of
\* two successive invocations), and never do two images of the build's name
\* exist that were both created at or after the build.
C15_ExportedOnce ==
    /\ [](Cardinality(OwnImages(cloud.image)) <= 1)
    /\ [][~(CreateIssued(lastPass) /\ CreateIssued(lastPass'))]_vars

\* C15 as the code has it: at most one CreateImage call ever succeeds. An
\* image of the build's own stays at the provider, a new image appears only
\* while there is none of the build's own and through the single CreateImage
\* call of the invocation, and never do two images of the build's own exist.
\* CreateImage calls that fail may be issued any number of times.
C15_OneSuccessfulCreate ==
    /\ [](Cardinality(OwnImages(cloud.image)) <= 1)
    /\ [][/\ OwnImages(cloud.image) \subseteq OwnImages(cloud'.image)
          /\ (\E i \in Ids : ~Live(cloud.image[i]) /\ Live(cloud'.image[i]))
                => /\ OwnImages(cloud.image) = {}
                   /\ Len(TargetsOf(lastPass'.calls, "CreateImage")) = 1]_vars

\* A CreateImage call issued after the one that succeeded: the image it made
\* has failed, and the provider refuses the name.
C15_Witness ==
    /\ lastPass.kind = "normal"
    /\ CreateIssued(lastPass)
    /\ lastPass.err = Wrap(AwsErr("InvalidAMIName.Duplicate", ""), "failed to create AMI")
    /\ \E i \in OwnImages(cloud.image) \cap NewIds : cloud.image[i].st = "failed"

\* The VPCs the provider c lists under a name.
VpcsNamed(c, name) == {i \in Ids : Live(c.vpc[i]) /\ c.vpc[i].name = name}

\* The CreateVpc calls among the provider calls of stage call e of pass p.
CreateVpcCalls(p, e) == {call \in CallsIn(p, e) : call[1] = "CreateVpc"}

\* What C17 says of the networks.Service.Reconcile call e of pass p that
\* started on the provider state c and ended on d.
VpcResolved(p, e, c, d) ==
    IF e.pre.vpcID # NIL /\ Live(c.vpc[e.pre.vpcID])
    THEN /\ CreateVpcCalls(p, e) = {}
         /\ e.post.vpcID = e.pre.vpcID
    ELSE IF VpcsNamed(c, VPCName(e.pre)) # {}
    THEN /\ CreateVpcCalls(p, e) = {}
         /\ e.post.vpcID \in VpcsNamed(c, VPCName(e.pre))
         /\ e.post.netName = c.vpc[e.post.vpcID].name
    ELSE /\ CreateVpcCalls(p, e) = {<<"CreateVpc", NIL>>}
         /\ Len(SelectSeq(p.calls, LAMBDA call : call[1] = "CreateVpc")) = 1
         /\ \/ /\ "vpc" \notin e.made
               /\ e.err # NoErr
               /\ e.post.vpcID = e.pre.vpcID
            \/ /\ "vpc" \in e.made
               /\ e.post.vpcID \in NewIds
               /\ ~Live(c.vpc[e.post.vpcID])
               /\ d.vpc[e.post.vpcID] = [st |-> "live", managed |-> TRUE,
                                         name |-> VPCName(e.pre), cidr |-> DefaultCIDR]
               /\ DefaultCIDR = Block(10, 0, 0, 0, 16)
               /\ e.post.netName = VPCName(e.pre)

\* C17: networks.Service.Reconcile resolves the VPC by id, then by name, then
\* by creation. A VPC found by the recorded id is used and no CreateVpc call
\* is made; else a VPC found by name is adopted, its id and name written to
\* the AWSBuild; only when neither lookup finds one is CreateVpc issued, with
\* the block 10.0.0.0/16 and the marker tag, and id and name are both set.
\* (Stated for invocations whose lookups answer; the stage is the first one
\* an invocation of a build that is not ready runs, so it starts on the
\* provider state before the invocation.)
C17_VpcResolutionOrder ==
    [][(/\ lastPass'.kind = "normal"
        /\ lastPass'.answers.fail # "DescribeVpcs"
        /\ lastPass'.stages # <<>>
        /\ lastPass'.stages[1].stage = "networks"
        /\ lastPass'.stages[1].op = "Reconcile")
       => VpcResolved(lastPass', lastPass'.stages[1], cloud, cloud')]_vars

\* Neither lookup found a VPC (the recorded id names none, no VPC has the
\* name) and one was created and recorded.
C17_Witness ==
    /\ lastPass.kind = "normal"
    /\ lastPass.stages # <<>>
    /\ lastPass.stages[1].stage = "networks"
    /\ lastPass.stages[1].op = "Reconcile"
    /\ lastPass.stages[1].pre.vpcID = ForeignId
    /\ ~Live(cloud.vpc[ForeignId])
    /\ "vpc" \in lastPass.stages[1].made
    /\ awsBuild.vpcID \in NewIds
    /\ cloud.vpc[awsBuild.vpcID].managed
    /\ awsBuild.netName = BuildName \o "-forge-vpc"

\* The positions, among the provider calls of pass p, of the calls of
\* operation op that stage call e made.
IdxOf(p, e, op) == {i \in (e.from + 1) .. e.to : p.calls[i][1] = op}

\* The internet gateways the provider c holds attached to VPC v.
GatewaysOf(c, v) == {g \in Ids : Live(c.igw[g]) /\ c.igw[g].vpc = v}

\* What C18 says of the networks.Service.Delete call e of pass p on the owned
\* VPC v, with c the provider before the pass and d after it.
GatewaysGoFirst(p, e, v, c, d) ==
    /\ \A i \in IdxOf(p, e, "DeleteVpc") :
          /\ p.calls[i] = <<"DeleteVpc", v>>
          /\ \A g \in GatewaysOf(c, v) :
                /\ \E j, k \in (e.from + 1) .. e.to :
                      /\ j < k /\ k < i
                      /\ p.calls[j] = <<"DetachInternetGateway", g>>
                      /\ p.calls[k] = <<"DeleteInternetGateway", g>>
                /\ ~Live(d.igw[g])
    /\ p.answers.fail \notin {"DescribeVpcs", "DescribeInternetGateways",
                              "DetachInternetGateway", "DeleteInternetGateway"}
          => Cardinality(IdxOf(p, e, "DeleteVpc")) = 1
    /\ (\E op \in {"DetachInternetGateway", "DeleteInternetGateway"} :
            p.answers.fail = op /\ IdxOf(p, e, op) # {})
          => /\ e.err # NoErr
             /\ IdxOf(p, e, "DeleteVpc") = {}
             /\ Live(d.vpc[v])
    /\ (IdxOf(p, e, "DeleteVpc") # {} /\ Live(d.vpc[v])) => e.err # NoErr
    /\ e.err = NoErr => ~Live(d.vpc[v]) /\ GatewaysOf(d, v) = {}

\* C18: networks.Service.Delete on an owned VPC detaches and deletes every
\* internet gateway attached to the VPC before it issues DeleteVpc; when a
\* gateway detach or delete fails, or DeleteVpc fails, it returns an error,
\* DeleteVpc is not issued after a gateway failure, and the invocation leaves
\* the finalizer in place. (The stages that run before it in the invocation
\* touch neither VPCs nor gateways.)
C18_GatewaysBeforeVpc ==
    [][\A e \in DeleteCall(lastPass', "networks") :
          (/\ e.pre.vpcID # NIL
           /\ Live(cloud.vpc[e.pre.vpcID])
           /\ cloud.vpc[e.pre.vpcID].managed
           /\ lastPass'.answers.fail # "DescribeVpcs")
          => /\ GatewaysGoFirst(lastPass', e, e.pre.vpcID, cloud, cloud')
             /\ e.err # NoErr => awsBuild'.finalizer /\ ~awsBuild'.cleanedUp]_vars

\* A delete invocation reached networks.Service.Delete on its own VPC, the
\* delete of the gateway failed after the detach, and the VPC and the
\* finalizer are still there.
C18_Witness ==
    /\ lastPass.kind = "delete"
    /\ lastPass.answers.fail = "DeleteInternetGateway"
    /\ \E e \in DeleteCall(lastPass, "networks") :
          /\ e.err # NoErr
          /\ IdxOf(lastPass, e, "DetachInternetGateway") # {}
          /\ IdxOf(lastPass, e, "DeleteInternetGateway") # {}
          /\ IdxOf(lastPass, e, "DeleteVpc") = {}
          /\ Live(cloud.vpc[e.pre.vpcID]) /\ cloud.vpc[e.pre.vpcID].managed
    /\ awsBuild.finalizer /\ present

\* The instances that came to exist at the provider between c and d.
NewInstances(c, d) == {i \in Ids : ~Live(c.inst[i]) /\ Live(d.inst[i])}

\* C19: over the invocations for one build, instances.Service.Reconcile
\* issues RunInstances only when no instance id is recorded or the recorded
\* instance is absent at the provider; the id of an instance it created is in
\* the stored AWSBuild after the same invocation, whatever later step of the
\* invocation failed; and the invocation after one that created an instance
\* issues no RunInstances. (The stages that run before it in an invocation
\* touch no instance.)
C19_InstanceCreatedOnce ==
    [][/\ \A e \in ReconcileCall(lastPass', "instances") :
             /\ IdxOf(lastPass', e, "RunInstances") # {}
                   => \/ e.pre.instanceID = NIL
                      \/ ~Live(cloud.inst[e.pre.instanceID])
             /\ Cardinality(IdxOf(lastPass', e, "RunInstances")) <= 1
             /\ \A i \in NewInstances(cloud, cloud') :
                   e.post.instanceID = i /\ awsBuild'.instanceID = i
       /\ (NewInstances(cloud, cloud') # {}) => ReconcileCall(lastPass', "instances") # {}
       /\ ("inst" \in UNION {e.made : e \in ReconcileCall(lastPass, "instances")})
             => "RunInstances" \notin OpsOf(lastPass')]_vars

\* C20: instances.Service.Delete with a recorded instance id whose instance
\* is absent at the provider sets the mirrored instance status to TERMINATED
\* and returns success without a TerminateInstances call, so that the
\* securitygroup.Service.Delete that follows is not refused. (Delete of the
\* instance is the first stage of the delete pipeline, so it starts on the
\* provider state before the invocation; stated for invocations whose
\* DescribeInstances answers.)
C20_AbsentInstanceMirroredTerminated ==
    [][\A e \in DeleteCall(lastPass', "instances") :
          (/\ e.pre.instanceID # NIL
           /\ ~Live(cloud.inst[e.pre.instanceID])
           /\ lastPass'.answers.fail # "DescribeInstances")
          => /\ e.err = NoErr
             /\ IdxOf(lastPass', e, "TerminateInstances") = {}
             /\ e.post.instanceStatus = InstanceStatusTerminated
             /\ \A g \in DeleteCall(lastPass', "securitygroup") :
                   g.err \notin {ErrInstanceNotTerminated, PanicErr}]_vars

\* The provider states of an instance whose termination is under way or done.
GoingStates == {"shutting-down", "terminated"}

\* C21: for an owned instance that the provider reports as terminated or
\* shutting-down, instances.Service.Delete mirrors that state, returns
\* success and issues no TerminateInstances call; and a TerminateInstances
\* call is issued, at most once in an invocation, only for an instance the
\* provider has not begun to terminate, so once a terminate call has moved
\* the instance to shutting-down no second one follows. (Delete of the
\* instance starts on the provider state before the invocation; stated for
\* invocations whose DescribeInstances answers.)
C21_TerminateOnce ==
    [][/\ \A e \in DeleteCall(lastPass', "instances") :
             (/\ e.pre.instanceID # NIL
              /\ cloud.inst[e.pre.instanceID].st \in GoingStates
              /\ cloud.inst[e.pre.instanceID].managed
              /\ lastPass'.answers.fail # "DescribeInstances")
             => /\ e.err = NoErr
                /\ IdxOf(lastPass', e, "TerminateInstances") = {}
                /\ e.post.instanceStatus = ToUpper(cloud.inst[e.pre.instanceID].st)
       /\ \A i \in DOMAIN lastPass'.calls :
             lastPass'.calls[i][1] = "TerminateInstances"
             => /\ Live(cloud.inst[lastPass'.calls[i][2]])
                /\ cloud.inst[lastPass'.calls[i][2]].st \notin GoingStates
                /\ \A j \in DOMAIN lastPass'.calls :
                      lastPass'.calls[j][1] = "TerminateInstances" => j = i
       /\ \A i \in Ids :
             cloud.inst[i].st \in GoingStates => cloud'.inst[i].st \in GoingStates \cup {"gone"}]_vars

\* A delete invocation found the build's own instance shutting down after an
\* earlier invocation had asked for its termination, mirrored the state and
\* issued no terminate call.
C21_Witness ==
    /\ lastPass.kind = "delete"
    /\ \E e \in DeleteCall(lastPass, "instances") :
          /\ e.pre.instanceStatus = "Terminating"
          /\ e.post.instanceStatus = "SHUTTING-DOWN"
          /\ e.err = NoErr
          /\ IdxOf(lastPass, e, "TerminateInstances") = {}
          /\ cloud.inst[e.pre.instanceID].st = "shutting-down"
          /\ cloud.inst[e.pre.instanceID].managed

\* The instance states EC2 reports.
InstanceStates == {"pending", "running", "shutting-down", "terminated", "stopping", "stopped"}

\* C22: every value that instances.Service.Reconcile or Delete writes to the
\* mirrored instance status is an upper-cased state the provider reports and
\* is one of the values declared for InstanceStatus.
C22_StatusWithinEnumeration ==
    \A e \in Stages(lastPass) :
        (e.stage = "instances" /\ e.post.instanceStatus # e.pre.instanceStatus)
        => /\ e.post.instanceStatus \in {ToUpper(st) : st \in InstanceStates}
           /\ e.post.instanceStatus \in InstanceStatusValues

\* The names of the stages pass p called, in the order it called them.
StageNames(p) == [i \in DOMAIN p.stages |-> p.stages[i].stage]

\* An invocation that ran the loop over the stages of reconcileNormal: a
\* normal one of a build that was not ready and whose ssh key was found.
RanStages(p) ==
    /\ p.kind = "normal"
    /\ p.stages # <<>>
    /\ p.stages[1].op = "Reconcile"

\* C23: a normal invocation for a build that is not ready calls the stages in
\* the order networks, subnet, securitygroup, instances, images, each on the
\* AWSBuild the one before left; when a stage returns an error no later
\* stage is called in the invocation, the warning event "Building Failed" is
\* recorded, that error is the one the invocation returns, and the AWSBuild
\* it writes is the one the failing stage left, with all that the earlier
\* stages wrote to it.
C23_NormalPipelineHalts ==
    RanStages(lastPass) =>
        /\ StageNames(lastPass) = SubSeq(NormalOrder, 1, Len(lastPass.stages))
        /\ \A i \in DOMAIN lastPass.stages :
              /\ lastPass.stages[i].op = "Reconcile"
              /\ i < Len(lastPass.stages)
                    => /\ lastPass.stages[i].err = NoErr
                       /\ lastPass.stages[i + 1].pre = lastPass.stages[i].post
        /\ \E last \in {lastPass.stages[Len(lastPass.stages)]} :
              /\ last.err = NoErr => Len(lastPass.stages) = Len(NormalOrder)
              /\ last.err \notin {NoErr, PanicErr}
                    => /\ <<"Warning", "Building Failed">> \in EventsOf(lastPass)
                       /\ lastPass.err = last.err
                       /\ lastPass.requeueAfter = 0
                       /\ lastPass.written => awsBuild = last.post

\* The security group stage failed after the network and subnet stages had
\* created and recorded a VPC and a subnet; both ids are in the stored
\* AWSBuild.
C23_Witness ==
    /\ RanStages(lastPass)
    /\ Len(lastPass.stages) = 3
    /\ lastPass.stages[3].err \notin {NoErr, PanicErr}
    /\ "vpc" \in lastPass.stages[1].made
    /\ "subnet" \in lastPass.stages[2].made
    /\ lastPass.stages[1].pre.vpcID = NIL
    /\ awsBuild.vpcID \in NewIds /\ awsBuild.subnetID \in NewIds
    /\ lastPass.err = lastPass.stages[3].err

\* The positions of the writes of the AWSBuild to the store among the calls of
\* an invocation.
Writes(p) == {i \in DOMAIN p.calls : p.calls[i][1] = "PatchObject"}

Invoked(p) == p # NoPass /\ p.kind \in {"normal", "delete"}

\* C24 as stated: every invocation that built a scope writes the AWSBuild to
\* the store exactly once, as its last step.
C24_WrittenOnce ==
    Invoked(lastPass) => Writes(lastPass) = {Len(lastPass.calls)}

\* C24: every invocation that built a scope ends with a write of the AWSBuild
\* to the store, whether the pipeline succeeded or failed; there is one more
\* write, and only one, exactly when the build was not ready and all five
\* stages succeeded, and it comes right after the last stage; when a stage
\* failed the AWSBuild written is the one the failing stage left, with the
\* mutations of the stages before it.
C24_WrittenAtEnd ==
    Invoked(lastPass) =>
        /\ Len(lastPass.calls) \in Writes(lastPass)
        /\ \E full \in {/\ RanStages(lastPass)
                        /\ Len(lastPass.stages) = Len(NormalOrder)
                        /\ \A i \in DOMAIN lastPass.stages : lastPass.stages[i].err = NoErr} :
              Writes(lastPass) =
                 IF full THEN {lastPass.stages[Len(NormalOrder)].to + 1, Len(lastPass.calls)}
                 ELSE {Len(lastPass.calls)}
        /\ /\ lastPass.stages # <<>>
           /\ lastPass.stages[Len(lastPass.stages)].err # NoErr
           /\ lastPass.written
           => awsBuild = lastPass.stages[Len(lastPass.stages)].post

\* The subnet stage failed after the network stage had created a VPC: the
\* invocation wrote once, at its end, and the stored AWSBuild names the VPC.
C24_Witness ==
    /\ RanStages(lastPass)
    /\ Len(lastPass.stages) = 2
    /\ lastPass.stages[2].err \notin {NoErr, PanicErr}
    /\ "vpc" \in lastPass.stages[1].made
    /\ lastPass.stages[1].pre.vpcID = NIL
    /\ Writes(lastPass) = {Len(lastPass.calls)}
    /\ lastPass.written
    /\ awsBuild.vpcID \in NewIds /\ awsBuild.subnetID = NIL

\* The field of the AWSBuild, the provider table and the create call of the
\* three stages that take an id from the user.
IdOf(stage, b) ==
    CASE stage = "networks" -> b.vpcID
      [] stage = "subnet" -> b.subnetID
      [] stage = "securitygroup" -> b.sgID

TableOf(stage, c) ==
    CASE stage = "networks" -> c.vpc
      [] stage = "subnet" -> c.subnet
      [] stage = "securitygroup" -> c.sg

CreateOf(stage) ==
    CASE stage = "networks" -> "CreateVpc"
      [] stage = "subnet" -> "CreateSubnet"
      [] stage = "securitygroup" -> "CreateSecurityGroup"

\* C25: when the AWSBuild names a VPC, a subnet or a security group by an id
\* of the user's and the provider has no such resource, the Reconcile of the
\* stage returns an error, issues no create call and leaves the id in the
\* AWSBuild as the user gave it.
C25_AbsentUserResourceIsAnError ==
    [][ RanStages(lastPass') =>
          \A i \in DOMAIN lastPass'.stages :
             \E e \in {lastPass'.stages[i]} :
                /\ e.stage \in {"networks", "subnet", "securitygroup"}
                /\ IdOf(e.stage, e.pre) = ForeignId
                /\ ~Live(TableOf(e.stage, cloud)[ForeignId])
                => /\ e.err # NoErr
                   /\ IdxOf(lastPass', e, CreateOf(e.stage)) = {}
                   /\ IdOf(e.stage, e.post) = ForeignId ]_vars

\* The ids of the kind k that are live in d and were not in c.
Created(k, c, d) == {i \in Ids : ~Live(c[k][i]) /\ Live(d[k][i])}

\* An AWSBuild that names no resource yet, at a provider that holds no VPC of
\* the name the build derives.
EmptyBuildState ==
    /\ awsBuild.vpcID = NIL /\ awsBuild.netName = "" /\ awsBuild.subnetID = NIL
    /\ awsBuild.sgID = NIL /\ awsBuild.instanceID = NIL /\ awsBuild.instanceStatus = ""
    /\ ~awsBuild.ready /\ ~awsBuild.deleting
    /\ VpcsNamed(cloud, VPCName(awsBuild)) = {}

C27_NamedByConvention ==
    [][ lastPass'.kind = "normal" /\ awsBuild.netName = "" =>
          /\ \A v \in Created("vpc", cloud, cloud') :
                cloud'.vpc[v].name = awsBuild.name \o "-forge-vpc"
          /\ \A g \in Created("sg", cloud, cloud') :
                cloud'.sg[g].name = awsBuild.name \o "-forge"
          /\ \A n \in Created("subnet", cloud, cloud') :
                cloud'.subnet[n].name = cloud'.vpc[cloud'.subnet[n].vpc].name \o "-subnet"
          /\ \A i \in Created("image", cloud, cloud') :
                cloud'.image[i].name = awsBuild.name ]_vars

\* The fields of the AWSBuild a stage call changed.
Written(e) == {f \in DOMAIN e.pre : e.pre[f] # e.post[f]}

\* The fields of the AWSBuild that belong to each operation of each stage.
OwnFields(stage, op) ==
    IF op = "Reconcile"
    THEN CASE stage = "networks" -> {"vpcID", "netName"}
           [] stage = "subnet" -> {"subnetID"}
           [] stage = "securitygroup" -> {"sgID"}
           [] stage = "instances" -> {"instanceID", "instanceStatus"}
           [] stage = "images" -> {"artifactRef"}
    ELSE IF stage = "instances" THEN {"instanceStatus"} ELSE {}

\* C28: every stage call changes only the fields of the AWSBuild that are its
\* own: the network stage the VPC id and the network name, the subnet stage
\* the subnet id, the security group stage the group id, the instance stage
\* the instance id and status, the image stage the artifact reference; of
\* the Delete operations only that of the instance stage changes anything,
\* and only the instance status; no call leaves a recorded id unset.
C28_StagesWriteOwnFields ==
    lastPass.kind \in {"normal", "delete"} =>
        \A k \in DOMAIN lastPass.stages :
           \E e \in {lastPass.stages[k]} :
              /\ Written(e) \subseteq OwnFields(e.stage, e.op)
              /\ \A f \in {"vpcID", "subnetID", "sgID", "instanceID", "artifactRef"} :
                    e.pre[f] # NIL => e.post[f] # NIL

\* An invocation in which the first four stages each wrote all of their
\* fields and the image stage none.
C28_Witness ==
    /\ RanStages(lastPass) /\ Len(lastPass.stages) = Len(NormalOrder)
    /\ \A k \in 1 .. 4 :
          Written(lastPass.stages[k]) = OwnFields(lastPass.stages[k].stage, "Reconcile")
    /\ Written(lastPass.stages[5]) = {}

\* C29: when the provider's terminate call fails, the Delete of the instance
\* stage returns an error and does not write the status "Terminating"; the
\* invocation records the failure event, returns that error and calls no
\* later stage.
C29_TerminateFailureSurfaces ==
    lastPass.kind \in {"normal", "delete"} /\ lastPass.answers.fail = "TerminateInstances" =>
        \A k \in DOMAIN lastPass.stages :
           \E e \in {lastPass.stages[k]} :
              /\ e.stage = "instances" /\ e.op = "Delete"
              /\ IdxOf(lastPass, e, "TerminateInstances") # {}
              => /\ e.err # NoErr
                 /\ e.post.instanceStatus # "Terminating"
                 /\ <<"Warning", "Cleaning Up Failed">> \in EventsOf(lastPass)
                 /\ lastPass.err = e.err
                 /\ k = Len(lastPass.stages)

\* The resources the controller created that are still at the provider.
CreatedAndThere(c) ==
    {<<k, i>> \in {"vpc", "igw", "subnet", "sg"} \X NewIds : Live(c[k][i])}
    \cup {<<"inst", i>> : i \in {j \in NewIds : Live(c.inst[j]) /\ c.inst[j].st # "terminated"}}

\* C30: whenever the stored AWSBuild exists, its cleanup has not completed
\* and a VPC, gateway, subnet, security group or instance the controller
\* created is still at the provider, the stored AWSBuild carries the
\* finalizer.
C30_FinalizerGuardsCreated ==
    present /\ ~awsBuild.cleanedUp /\ CreatedAndThere(cloud) # {} => awsBuild.finalizer

\* A delete invocation in which the security group stage deleted the group
\* and the subnet stage then failed.
DeleteFailedMidway ==
    /\ lastPass.kind = "delete"
    /\ Len(lastPass.stages) = 3
    /\ lastPass.stages[2].stage = "securitygroup" /\ lastPass.stages[2].err = NoErr
    /\ IdxOf(lastPass, lastPass.stages[2], "DeleteSecurityGroup") # {}
    /\ lastPass.stages[3].stage = "subnet" /\ lastPass.stages[3].err # NoErr

\* C31: after a delete invocation that failed at the subnet stage when the
\* security group stage had deleted the group, the invocations that follow,
\* once the calls succeed, complete the cleanup: the finalizer is removed and
\* the AWSBuild leaves the store.
C31_DeleteResumes == DeleteFailedMidway ~> ~present

\* The build is in the delete pipeline.
InDeletePipeline == present /\ awsBuild.deleting /\ awsBuild.finalizer

\* C32: under fair re-invocation, with calls that succeed from some
\* invocation on, every build in the delete pipeline has its finalizer
\* removed in the end, whatever instance it records: one of the controller's
\* that runs or is terminated, one of the user's, or one the provider no
\* longer has.
C32_DeleteCompletes == InDeletePipeline ~> ~present

\* C33: the invocations for build A never delete or terminate what build B
\* created and still uses: B's VPC, gateway, subnet, security group and
\* instance stay at the provider as they are, also when A found B's VPC by
\* the name both derive.
C33_OtherBuildUntouched ==
    [][ /\ \A k \in {"vpc", "igw", "subnet", "sg"} :
              Live(cloud[k][ForeignId]) => Live(cloud'[k][ForeignId])
        /\ cloud'.inst[ForeignId] = cloud.inst[ForeignId] ]_vars

\* C34: when two workers run CreateSubnet on one VPC at the same time, they
\* never hold the same block computed from the same listing, the provider
\* refuses neither's block, and the blocks of the subnets they made do not
\* overlap.
C34_ConcurrentBlocksDistinct ==
    \E a \in {lastPass.worker["A"]}, b \in {lastPass.worker["B"]} :
       /\ a.pc # "list" /\ b.pc # "list" /\ a.cidrBlock # NoCIDR /\ b.cidrBlock # NoCIDR
          => /\ a.cidrBlock # b.cidrBlock
             /\ ~isCIDRInUse(a.cidrBlock, {b.cidrBlock})
       /\ a.err.code # "InvalidSubnet.Range" /\ b.err.code # "InvalidSubnet.Range"
       /\ a.subnet # NIL /\ b.subnet # NIL
          => ~isCIDRInUse(cloud.subnet[a.subnet].cidr, {cloud.subnet[b.subnet].cidr})

\* C35: once the delete pipeline has completed for the build, the finalizer
\* removed and the cleaned-up flag set, no VPC, internet gateway, subnet,
\* security group or instance the controller created is left at the
\* provider.
C35_NothingLeftAfterCleanup ==
    awsBuild.cleanedUp /\ ~awsBuild.finalizer => CreatedAndThere(cloud) = {}

\* An invocation in which CreateSecurityGroup made a group and the
\* authorization of its ingress rule then failed.
AuthorizeFailedAfterCreate(p) ==
    /\ Invoked(p)
    /\ p.answers.fail = "AuthorizeSecurityGroupIngress"
    /\ \E i \in NewIds : <<"AuthorizeSecurityGroupIngress", i>> \in CallsOf(p)

\* The security groups the controller has created so far.
GroupsCreated(c) == {i \in NewIds : c.sg[i].st # "free"}

\* C36: the invocation that follows one in which CreateSecurityGroup made a
\* group and the authorization failed issues no CreateSecurityGroup; the
\* controller creates at most one security group for the build; and a
\* security group id the controller recorded names a group that has the
\* rule for TCP port 22.
C36_GroupCreatedOnce ==
    [][ /\ AuthorizeFailedAfterCreate(lastPass) /\ Invoked(lastPass')
           => \A i \in DOMAIN lastPass'.calls : lastPass'.calls[i][1] # "CreateSecurityGroup"
        /\ Cardinality(GroupsCreated(cloud')) <= 1
        /\ awsBuild'.sgID \in NewIds => cloud'.sg[awsBuild'.sgID].ssh ]_vars

\* An invocation of reconcileNormal that came to the check of the instance
\* id and the artifact reference through the loop: all five stages and the
\* write that follows them succeeded.
ReachedCheck(p) ==
    /\ RanStages(p)
    /\ Len(p.stages) = Len(NormalOrder)
    /\ \A i \in DOMAIN p.stages : p.stages[i].err = NoErr
    /\ p.answers.fail # "PatchObject"

\* The invocation found an instance id and an artifact reference on the
\* AWSBuild the stages left.
FoundBoth(p) ==
    \E s \in {p.stages[Len(p.stages)].post} : s.instanceID # NIL /\ s.artifactRef # NIL

\* C37: a ready build records an instance id and an artifact reference; the
\* ready flag is set only by an invocation that found both; an invocation
\* that finds one of them missing returns a requeue after 5 seconds, without
\* error and without setting the flag; and a flag once set stays set.
C37_ReadyMeansBuilt ==
    [][ /\ awsBuild'.ready => awsBuild'.instanceID # NIL /\ awsBuild'.artifactRef # NIL
        /\ awsBuild.ready => awsBuild'.ready
        /\ ~awsBuild.ready /\ awsBuild'.ready
              => ReachedCheck(lastPass') /\ FoundBoth(lastPass')
        /\ ReachedCheck(lastPass') /\ ~FoundBoth(lastPass')
              => /\ lastPass'.requeueAfter = RequeueSeconds
                 /\ lastPass'.err = NoErr
                 /\ ~awsBuild'.ready ]_vars

\* An invocation passed all five stages, found the instance id and the
\* reference of the exported image, and set the ready flag.
C37_Witness ==
    /\ ReachedCheck(lastPass) /\ FoundBoth(lastPass)
    /\ ~lastPass.stages[1].pre.ready
    /\ awsBuild.ready /\ awsBuild.instanceID \in NewIds /\ awsBuild.artifactRef # NIL

\* Invocation p ran the delete pipeline: it called Delete of the stages in
\* the order of reconcileDelete, as far as it came, and no stage's Reconcile.
RanDeletePipeline(p) ==
    /\ p.stages # <<>> /\ Len(p.stages) <= Len(DeleteOrder)
    /\ StageNames(p) = SubSeq(DeleteOrder, 1, Len(p.stages))
    /\ \A i \in DOMAIN p.stages : p.stages[i].op = "Delete"

\* What holds of an invocation p for a build stored as ready, s being the
\* AWSBuild before it and s2 the one after it; keyed says whether the
\* invocation got the ssh key.
AfterReady(s, p, s2, keyed) ==
    /\ \A e \in Stages(p) : e.op # "Reconcile"
    /\ \A call \in CallsOf(p) : call[1] \notin CreateOps \cup {"DeregisterImage"}
    /\ ~s.cleanedUp /\ keyed => RanDeletePipeline(p)
    /\ ~s.cleanedUp /\ Len(p.stages) = Len(DeleteOrder) /\ p.err = NoErr /\ p.requeueAfter = 0
          => s2.cleanedUp /\ ~s2.finalizer
    /\ s.cleanedUp
          => /\ p.stages = <<>>
             /\ \A call \in CallsOf(p) : call[1] \notin DestructiveOps
             /\ s2.cleanedUp /\ ~s2.finalizer

\* C38 as stated: once the build is ready, every later invocation runs the
\* delete pipeline until that has completed, none calls a stage's Reconcile
\* or creates anything, after the completion the cleaned-up flag is set, the
\* finalizer is gone and nothing more is deleted or terminated, and no image
\* is deregistered.
C38_EveryPassTearsDown ==
    [][ awsBuild.ready /\ Invoked(lastPass')
        => AfterReady(awsBuild, lastPass', awsBuild', TRUE) ]_vars

\* C38: once the build is ready, every later invocation that got the ssh key
\* runs the delete pipeline until that has completed; no later invocation
\* calls a stage's Reconcile or creates anything; after the completion the
\* cleaned-up flag is set, the finalizer is gone and nothing more is deleted
\* or terminated; and no image is deregistered.
C38_TeardownAfterReady ==
    [][ awsBuild.ready /\ Invoked(lastPass')
        => AfterReady(awsBuild, lastPass', awsBuild', lastPass'.answers.fail # "GetSSHKey") ]_vars

\* A ready build whose teardown has completed in the last invocation: the
\* four stages' Delete ran, the controller's instance and VPC are gone, the
\* exported image is still available.
C38_Witness ==
    /\ lastPass.kind = "normal" /\ RanDeletePipeline(lastPass)
    /\ Len(lastPass.stages) = Len(DeleteOrder)
    /\ awsBuild.ready /\ awsBuild.cleanedUp /\ ~awsBuild.finalizer
    /\ <<"DeleteVpc", awsBuild.vpcID>> \in CallsOf(lastPass)
    /\ awsBuild.artifactRef # NIL /\ cloud.image[awsBuild.artifactRef].st = "available"

\* C39: whenever an invocation calls Delete of the security group stage, in
\* the delete pipeline of a build under deletion or in the teardown of a
\* ready build, the mirrored instance status is set, so the comparison with
\* TERMINATED reads a value; this also when no instance id is recorded or
\* the recorded instance is the user's.
C39_StatusSetAtGroupDelete ==
    \A e \in DeleteCall(lastPass, "securitygroup") :
        e.pre.instanceStatus # "" /\ e.err # PanicErr

\* The delete pipeline called Delete of the security group stage for a build
\* that records the user's instance; the status mirrored from it is set and
\* the comparison was made.
C39_Witness ==
    \E e \in DeleteCall(lastPass, "securitygroup") :
        /\ e.pre.instanceID = ForeignId
        /\ e.pre.instanceStatus \in {"RUNNING", "PENDING"}
        /\ e.err = ErrInstanceNotTerminated

====
